---- MODULE Spec2Model ----
(***************************************************************************)
(* CONNEXA monitor: the reconciliation and adoption queries and the pages  *)
(* that combine them, as state machines over the tables they read.         *)
(*                                                                         *)
(*   t874  [DiarcoP].[dbo].[T874_OC_PRECARGA_KIKKER_HIST]  (SGM: orders    *)
(*         that came from CONNEXA, with the prefix/suffix of the SGM OC)   *)
(*   cabe  [DiarcoP].[dbo].[T080_OC_CABE]                  (SGM: OC header)*)
(*   pg    public.t080_oc_precarga_connexa                 (CONNEXA side)  *)
(*                                                                         *)
(* Texts are sequences of one-character strings, dates are <<y, m, d>>.    *)
(***************************************************************************)
EXTENDS Integers, Sequences, FiniteSets, TLC

\* A nullable value is <<>> (SQL NULL, Python None, NaN) or <<v>>.
Null == <<>>

Some(v) == <<v>>

(***************************************************************************)
(* Bounds of the model.                                                    *)
(***************************************************************************)
\* Rows held by the tables of one run, all tables together.
MaxRows == 3

MaxVista == 1

\* Rows of src.base_stock_sucursal.
MaxStock == 1

\* Rows of the proposal view of connexa_platform.
MaxPropuestas == 2

\* Seconds the clock runs.
MaxClock == 400

\* The days the Streamlit process is followed for
MaxDays == 120

(***************************************************************************)
(* Text: CAST(x AS varchar(32)), CONCAT(a, '-', b), astype(str).           *)
(***************************************************************************)
RECURSIVE IntText(_)
IntText(n) ==
  LET digit(d) == <<"0", "1", "2", "3", "4", "5", "6", "7", "8", "9">>[d + 1]
  IN  IF n < 0 THEN <<"-">> \o IntText(0 - n)
      ELSE IF n < 10 THEN <<digit(n)>>
      ELSE IntText(n \div 10) \o <<digit(n % 10)>>

\* str.strip()
RECURSIVE Strip(_)
Strip(s) ==
  IF s = <<>> THEN s
  ELSE IF Head(s) = " " THEN Strip(Tail(s))
  ELSE IF s[Len(s)] = " " THEN Strip(SubSeq(s, 1, Len(s) - 1))
  ELSE s

\* CAST(x AS varchar(32)): NULL stays NULL, a number becomes its decimal text.
CastVarchar(x) == IF x = Null THEN Null ELSE Some(IntText(x[1]))

\* SQL Server CONCAT: a NULL argument counts as the empty string, and the
\* result is never NULL.
Concat3(a, b, c) ==
  LET arg(x) == IF x = Null THEN <<>> ELSE x[1]
  IN  Some(arg(a) \o arg(b) \o arg(c))

\* a = b in SQL: never true of a NULL.
SqlEq(a, b) == a # Null /\ b # Null /\ a = b

\* ISNULL(x, 0) <> 0
NonZero(x) == (IF x = Null THEN 0 ELSE x[1]) # 0

(***************************************************************************)
(* Dates.                                                                  *)
(***************************************************************************)
DateLT(a, b) ==
  \/ a[1] < b[1]
  \/ a[1] = b[1] /\ a[2] < b[2]
  \/ a[1] = b[1] /\ a[2] = b[2] /\ a[3] < b[3]

DateLE(a, b) == a = b \/ DateLT(a, b)

DaysInMonth(y, m) ==
  LET leap == (y % 4 = 0 /\ y % 100 # 0) \/ y % 400 = 0
  IN  IF m = 2 THEN (IF leap THEN 29 ELSE 28)
      ELSE IF m \in {4, 6, 9, 11} THEN 30 ELSE 31

\* DATEADD(day, 1, d), d + timedelta(days=1), d + INTERVAL '1 day'
NextDay(d) ==
  IF d[3] < DaysInMonth(d[1], d[2]) THEN <<d[1], d[2], d[3] + 1>>
  ELSE IF d[2] < 12 THEN <<d[1], d[2] + 1, 1>>
  ELSE <<d[1] + 1, 1, 1>>

\* d - INTERVAL '1 day'
PrevDay(d) ==
  IF d[3] > 1 THEN <<d[1], d[2], d[3] - 1>>
  ELSE IF d[2] > 1 THEN <<d[1], d[2] - 1, DaysInMonth(d[1], d[2] - 1)>>
  ELSE <<d[1] - 1, 12, 31>>

\* DATEFROMPARTS(YEAR(d), MONTH(d), 1), date_trunc('month', d)::date
MonthStart(d) == <<d[1], d[2], 1>>

\* f >= :desde AND f < DATEADD(day, 1, :hasta)
InRange(f, desde, hasta) == DateLE(desde, f) /\ DateLT(f, NextDay(hasta))

(***************************************************************************)
(* State.                                                                  *)
(***************************************************************************)
VARIABLES
  t874,     \* rows of T874_OC_PRECARGA_KIKKER_HIST: [kikker, pre, suf, dia]
  cabe,     \* rows of T080_OC_CABE: [pre, suf, dia, comprador]
  pg,       \* rows of public.t080_oc_precarga_connexa: [connexa, dia, comprador]
  now,      \* seconds on the clock of the server that runs the pages
  cache,    \* entries of st.cache_data: [key, request, value, at]
  propuestas, \* rows of the proposal view of connexa_platform:
            \* [supplier, proposal]
  today,    \* date.today()
  fecha_predefinida, \* the global of modules/ui.py; Null until the import
  pgTime,   \* PostgreSQL: the type of f_alta_sist ("timestamp" holds the wall
            \* clock as written, "timestamptz" the UTC instant) and the
            \* TimeZone of the sessions, in hours from UTC
  vista,    \* rows of [data-sync].[dbo].[V_USO_SEMANAL_COMPRADOR]
  stock,    \* rows of the stock dataset of page 07
  engSgm,   \* get_sqlserver_engine(): "ok", "none" (not configured), "down"
  engPg,    \* diarco_data (PostgreSQL), get_pg_engine / get_diarco_engine:
            \* "ok" or "down"
  engCx,    \* connexa_platform (PostgreSQL): "ok" or "down"
  objects,  \* <<database, name>> of the schemas, views, indexes, extensions
            \* and constraints that exist in the PostgreSQL databases
  links,    \* rows of public.prc_buyer_supplier: <<buyer_id, supplier_id>>
  pc,       \* "idle", or the page / function whose result is in out
  out       \* the result of the last run

vars == <<t874, cabe, pg, now, cache, propuestas, today, fecha_predefinida, pgTime, vista, stock, engSgm, engPg, engCx, objects, links, pc,
          out>>

NoReport == [page |-> "none"]

T874Row(k, p, s, d) == [kikker |-> k, pre |-> p, suf |-> s, dia |-> d]

CabeRow(p, s, d, c) == [pre |-> p, suf |-> s, dia |-> d, comprador |-> c]

PgRow(k, d, h, c) == [connexa |-> k, dia |-> d, hora |-> h, comprador |-> c]

\* 'America/Argentina/Buenos_Aires': UTC-3 all year, no daylight saving
BusinessOffset == 0 - 3

\* The date of the value of f_alta_sist held in row r, as an expression of
\* PostgreSQL sees it.  A timestamp is the wall clock as written: it compares
\* with :desde and truncates as it is, and AT TIME ZONE reads it as a Buenos
\* Aires clock and gives an instant, which date_trunc truncates in the
\* TimeZone of the session.  A timestamptz is an instant: it compares and
\* truncates in the TimeZone of the session, and AT TIME ZONE gives its
\* Buenos Aires wall clock.
PgDate(r, atTimeZone) ==
  LET k == IF pgTime.column = "timestamp"
           THEN (IF atTimeZone THEN pgTime.TimeZone - BusinessOffset ELSE 0)
           ELSE (IF atTimeZone THEN BusinessOffset ELSE pgTime.TimeZone)
  IN  IF r.hora + k < 0 THEN PrevDay(r.dia)
      ELSE IF r.hora + k > 23 THEN NextDay(r.dia)
      ELSE r.dia

RowCount == Cardinality(t874) + Cardinality(cabe) + Cardinality(pg)

(***************************************************************************)
(* The source systems write their own tables between two runs of a page.   *)
(***************************************************************************)
InsertT874(K, P, S, D) ==
  /\ pc = "idle"
  /\ RowCount < MaxRows
  /\ \E k \in K, p \in P, s \in S, d \in D :
       /\ T874Row(k, p, s, d) \notin t874
       /\ t874' = t874 \cup {T874Row(k, p, s, d)}
  /\ UNCHANGED <<now, cache, propuestas, today, fecha_predefinida, pgTime,
                 vista, stock, cabe, pg, engSgm, engPg, engCx, objects, links, pc, out>>

InsertCabe(P, S, D, C) ==
  /\ pc = "idle"
  /\ RowCount < MaxRows
  /\ \E p \in P, s \in S, d \in D, c \in C :
       /\ CabeRow(p, s, d, c) \notin cabe
       /\ cabe' = cabe \cup {CabeRow(p, s, d, c)}
  /\ UNCHANGED <<now, cache, propuestas, today, fecha_predefinida, pgTime,
                 vista, stock, t874, pg, engSgm, engPg, engCx, objects, links, pc, out>>

InsertPg(K, D, H, C) ==
  /\ pc = "idle"
  /\ RowCount < MaxRows
  /\ \E k \in K, d \in D, h \in H, c \in C :
       /\ PgRow(k, d, h, c) \notin pg
       /\ pg' = pg \cup {PgRow(k, d, h, c)}
  /\ UNCHANGED <<now, cache, propuestas, today, fecha_predefinida, pgTime,
                 vista, stock, t874, cabe, engSgm, engPg, engCx, objects, links, pc, out>>

\* Streamlit runs the page again on the next interaction.
\* data-sync refreshes a row of the weekly view
InsertVista(Buyers, Weeks, Cnx, Sgm) ==
  /\ pc = "idle"
  /\ Cardinality(vista) < MaxVista
  /\ \E b \in Buyers, w \in Weeks, x \in Cnx, y \in Sgm :
       vista' = vista \cup {[c_comprador |-> b, semana |-> w,
                              total_oc_cnx |-> x, total_oc_sgm |-> y]}
  /\ UNCHANGED <<now, cache, propuestas, today, fecha_predefinida, pgTime,
                 stock, t874, cabe, pg, engSgm, engPg, engCx, objects,
                 links, pc, out>>

Rerun ==
  /\ pc # "idle"
  /\ pc' = "idle"
  /\ out' = NoReport
  /\ UNCHANGED <<now, cache, propuestas, today, fecha_predefinida, pgTime,
                 vista, stock, t874, cabe, pg, engSgm, engPg, engCx, objects, links>>

\* A server stops answering, or answers again.  An engine that is not
\* configured ("none") stays so: get_sqlserver_engine is cached.
SgmOutage ==
  /\ pc = "idle"
  /\ engSgm \in {"ok", "down"}
  /\ engSgm' = IF engSgm = "ok" THEN "down" ELSE "ok"
  /\ UNCHANGED <<now, cache, propuestas, today, fecha_predefinida, pgTime,
                 vista, stock, t874, cabe, pg, engPg, engCx, objects, links, pc, out>>

PgOutage ==
  /\ pc = "idle"
  /\ engPg' = IF engPg = "ok" THEN "down" ELSE "ok"
  /\ UNCHANGED <<now, cache, propuestas, today, fecha_predefinida, pgTime,
                 vista, stock, t874, cabe, pg, engSgm, engCx, objects, links, pc, out>>

(***************************************************************************)
(* The match key of an SGM order, as each query builds it.                 *)
(***************************************************************************)
Dash == Some(<<"-">>)

\* T874 side: CAST(U_PREFIJO_OC AS varchar(32)), CAST(U_SUFIJO_OC ...), CONCAT
T874OcSgm(r) == Concat3(CastVarchar(r.pre), Dash, CastVarchar(r.suf))

\* T080_OC_CABE side
\* The key without its separator: what the header side must not compute.
CabeOcSgmNoDash(r) == Concat3(CastVarchar(r.pre), Some(<<>>), CastVarchar(r.suf))

CabeOcSgm(r) == Concat3(CastVarchar(r.pre), Dash, CastVarchar(r.suf))

\* WHERE ISNULL(U_PREFIJO_OC, 0) <> 0 AND ISNULL(U_SUFIJO_OC, 0) <> 0
PrefSufNonZero(r) == NonZero(r.pre) /\ NonZero(r.suf)

(***************************************************************************)
(* Helpers over finite sets.                                               *)
(***************************************************************************)
RECURSIVE SumOf(_, _)
\* The sum of f[x] over the domain S of the function f.
SumOf(f, S) ==
  IF S = {} THEN 0
  ELSE LET x == CHOOSE y \in S : TRUE IN f[x] + SumOf(f, S \ {x})

\* COUNT(DISTINCT e): the distinct non-NULL values.
CountDistinct(values) == Cardinality(values \ {Null})

\* A Python float quotient n / d, kept exact.
Frac(n, d) == [num |-> n, den |-> d]

\* x / y if y else 0.0
RatioOrZero(x, y) == IF y # 0 THEN Some(Frac(x, y)) ELSE Some(Frac(0, 1))

\* CAST(1.0 * n / NULLIF(d, 0) AS decimal(9,6)), in millionths; NULL when d = 0.
Decimal96(n, d) ==
  IF d = 0 THEN Null ELSE Some((2 * n * 1000000 + d) \div (2 * d))

(***************************************************************************)
(* SQL_SGM_KIKKER_VS_OC_MENSUAL and the loader of page 02 (Ind 2).         *)
(***************************************************************************)
\* WHERE F_ALTA_SIST >= CAST('2025-06-01' AS DATE)
KikkerFloor == <<2025, 6, 1>>

\* src ... base: the T874 rows of the window; no filter on prefix / suffix.
KikkerVsOcBase(desde, hasta) ==
  {r \in t874 : DateLE(KikkerFloor, r.dia) /\ InRange(r.dia, desde, hasta)}

SqlSgmKikkerVsOcMensual(desde, hasta) ==
  LET base == KikkerVsOcBase(desde, hasta)
      ofMes(m) == {r \in base : MonthStart(r.dia) = m}
  IN  { [mes |-> m,
         kikker_distintos |-> CountDistinct({r.kikker : r \in ofMes(m)}),
         oc_sgm_distintas |-> CountDistinct({T874OcSgm(r) : r \in ofMes(m)})]
        : m \in {MonthStart(r.dia) : r \in base} }

\* A pandas frame: pd.DataFrame() has no columns at all, while a query that
\* returns no row still has its columns.
NoColumns == [columns |-> FALSE, rows |-> {}]

Frame(rows) == [columns |-> TRUE, rows |-> rows]

\* fetch_sgm_mensual
FetchSgmMensual(desde, hasta) ==
  IF engSgm = "none" THEN NoColumns
  ELSE Frame({ [mes |-> r.mes, nips_sgm |-> r.kikker_distintos,
                oc_sgm |-> r.oc_sgm_distintas]
               : r \in SqlSgmKikkerVsOcMensual(desde, hasta) })

\* SQL_PG_KIKKER_MENSUAL
SqlPgKikkerMensual(desde, hasta) ==
  LET base == {r \in pg : InRange(PgDate(r, FALSE), desde, hasta)}
      ofMes(m) == {r \in base : MonthStart(PgDate(r, TRUE)) = m}
  IN  { [mes |-> m,
         kikker_distintos_pg |-> CountDistinct({r.connexa : r \in ofMes(m)})]
        : m \in {MonthStart(PgDate(r, TRUE)) : r \in base} }

\* fetch_pg_connexa_mensual
FetchPgConnexaMensual(desde, hasta) ==
  Frame({ [mes |-> r.mes, pedidos_connexa |-> r.kikker_distintos_pg]
          : r \in SqlPgKikkerMensual(desde, hasta) })

(***************************************************************************)
(* SQL_SGM_I3_MENSUAL and SQL_SGM_I3_SIN_CABE.                             *)
(***************************************************************************)
\* WHERE F_ALTA_SIST >= CAST('2025-08-01' AS DATE)
I3Floor == <<2025, 8, 1>>

\* t874 and t874_r of SQL_SGM_I3_MENSUAL: no floor on the date.
I3T874R(desde, hasta) ==
  {t \in t874 : PrefSufNonZero(t) /\ InRange(t.dia, desde, hasta)}

\* cabe and cabe_r of SQL_SGM_I3_MENSUAL.
I3CabeR(desde, hasta) ==
  {c \in cabe : /\ DateLE(I3Floor, c.dia)
                /\ PrefSufNonZero(c)
                /\ InRange(c.dia, desde, hasta)}

\* The join on the prefix alone: what the query must not do.
I3JoinOnPrefix(t, c) == SqlEq(CastVarchar(t.pre), CastVarchar(c.pre))

\* ON t.u_prefijo_oc = c.u_prefijo_oc AND t.u_sufijo_oc = c.u_sufijo_oc
I3JoinOn(t, c) ==
  /\ SqlEq(CastVarchar(t.pre), CastVarchar(c.pre))
  /\ SqlEq(CastVarchar(t.suf), CastVarchar(c.suf))

SqlSgmI3Mensual(desde, hasta) ==
  LET cR == I3CabeR(desde, hasta)
      tR == I3T874R(desde, hasta)
      ofMes(m) == {c \in cR : MonthStart(c.dia) = m}
      \* CASE WHEN t.oc_sgm IS NOT NULL THEN c.oc_sgm END, over the join
      caseWhen(c) == IF \E t \in tR : I3JoinOn(t, c) /\ T874OcSgm(t) # Null
                     THEN CabeOcSgm(c) ELSE Null
      total(m) == CountDistinct({CabeOcSgm(c) : c \in ofMes(m)})
      desde_cx(m) == CountDistinct({caseWhen(c) : c \in ofMes(m)})
  IN  { [mes |-> m,
         oc_totales_sgm |-> total(m),
         oc_desde_connexa |-> desde_cx(m),
         proporcion_ci |-> Decimal96(desde_cx(m), total(m))]
        : m \in {MonthStart(c.dia) : c \in cR} }

\* t874_r and cabe_r of SQL_SGM_I3_SIN_CABE: here the floor is on T874.
SinCabeT874R(desde, hasta) ==
  {t \in t874 : /\ DateLE(I3Floor, t.dia)
                /\ PrefSufNonZero(t)
                /\ InRange(t.dia, desde, hasta)}

SinCabeCabeR(desde, hasta) ==
  {c \in cabe : PrefSufNonZero(c) /\ InRange(c.dia, desde, hasta)}

SqlSgmI3SinCabe(desde, hasta) ==
  {t \in SinCabeT874R(desde, hasta) :
     ~ \E c \in SinCabeCabeR(desde, hasta) : I3JoinOn(t, c)}

\* ORDER BY t.f_alta_date DESC: the rows of the result, each once, the later
\* day first.  The clause names no other column, so the server may return the
\* rows of one day in any order: every such listing is a result of the query.
SqlSgmI3SinCabeOrdered(desde, hasta) ==
  LET rows == SqlSgmI3SinCabe(desde, hasta)
      n    == Cardinality(rows)
  IN  {s \in [1..n -> rows] :
         \A i, j \in 1..n : i < j => s[i] # s[j] /\ DateLE(s[j].dia, s[i].dia)}

(***************************************************************************)
(* Page 03: Indicador 3, proportion of SGM orders that came from CONNEXA.  *)
(***************************************************************************)
\* min_ci = date(2025, 6, 1)
MinCi == <<2025, 6, 1>>

\* if desde < min_ci: desde = min_ci
ClampDesde(desde) == IF DateLT(desde, MinCi) THEN MinCi ELSE desde

\* A page whose script raised: Streamlit shows the traceback and stops.
Aborted(page, desde, hasta) ==
  [page |-> page, desde |-> desde, hasta |-> hasta, status |-> "aborted"]

\* total_sgm, total_ci, ratio: the KPIs of the range
Indicador3Kpis(rows) ==
  LET total_sgm == SumOf([r \in rows |-> r.oc_totales_sgm], rows)
      total_ci  == SumOf([r \in rows |-> r.oc_desde_connexa], rows)
  IN  [total_sgm |-> total_sgm,
       total_ci  |-> total_ci,
       ratio     |-> IF total_sgm # 0 THEN Frac(total_ci, total_sgm)
                     ELSE Frac(0, 1)]

Indicador3(Requests) ==
  /\ pc = "idle"
  /\ \E q \in Requests :
       LET desde0 == q[1]
           hasta == q[2]
           desde == ClampDesde(desde0)
           rows  == SqlSgmI3Mensual(desde, hasta)
       IN  \E df_miss \in SqlSgmI3SinCabeOrdered(desde, hasta) :
             out' =
               IF engSgm = "down" THEN Aborted("indicador3", desde, hasta)
               ELSE IF engSgm = "none" \/ rows = {}
               THEN [page |-> "indicador3", desde |-> desde, hasta |-> hasta,
                     status |-> "info"]
               ELSE [page |-> "indicador3", desde |-> desde, hasta |-> hasta,
                     status |-> "ok", df |-> rows, kpis |-> Indicador3Kpis(rows),
                     sin_cabe |-> SqlSgmI3SinCabe(desde, hasta),
                     df_miss |-> df_miss]
  /\ pc' = "indicador3"
  /\ UNCHANGED <<now, cache, propuestas, today, fecha_predefinida, pgTime,
                 vista, stock, t874, cabe, pg, engSgm, engPg, engCx, objects, links>>

(***************************************************************************)
(* Page 02 (Ind 2), tab 1: the funnel CONNEXA -> SGM.                      *)
(***************************************************************************)
\* pd.merge(df_pg_m, df_sgm_m, on="mes", how="outer"), then fillna(0)
EmbudoMerge(pgRows, sgmRows) ==
  LET meses == {r.mes : r \in pgRows} \cup {r.mes : r \in sgmRows}
      pgOf(m)  == {r \in pgRows : r.mes = m}
      sgmOf(m) == {r \in sgmRows : r.mes = m}
      pedidos(m) == IF pgOf(m) = {} THEN 0
                    ELSE (CHOOSE r \in pgOf(m) : TRUE).pedidos_connexa
      nips(m) == IF sgmOf(m) = {} THEN 0
                 ELSE (CHOOSE r \in sgmOf(m) : TRUE).nips_sgm
      oc(m) == IF sgmOf(m) = {} THEN 0
               ELSE (CHOOSE r \in sgmOf(m) : TRUE).oc_sgm
  IN  { [mes |-> m, pedidos_connexa |-> pedidos(m), nips_sgm |-> nips(m),
         oc_sgm |-> oc(m),
         tasa_conv_pedidos_oc |->
           IF pedidos(m) # 0 THEN Frac(oc(m) * 100, pedidos(m))
           ELSE Frac(0, 1)]
        : m \in meses }

EmbudoKpis(rows) ==
  LET total_pedidos == SumOf([r \in rows |-> r.pedidos_connexa], rows)
      total_oc      == SumOf([r \in rows |-> r.oc_sgm], rows)
  IN  [total_pedidos |-> total_pedidos,
       total_oc      |-> total_oc,
       tasa_global   |-> IF total_pedidos > 0
                         THEN Frac(total_oc * 100, total_pedidos)
                         ELSE Frac(0, 1)]

TabEmbudo(Requests) ==
  /\ pc = "idle"
  /\ \E q \in Requests :
       LET desde == q[1]
           hasta == q[2]
       IN  out' =
           LET df_pg_m  == FetchPgConnexaMensual(desde, hasta)
               df_sgm_m == FetchSgmMensual(desde, hasta)
               df       == EmbudoMerge(df_pg_m.rows, df_sgm_m.rows)
           IN  IF engPg # "ok" \/ engSgm = "down"
               THEN Aborted("tab_embudo", desde, hasta)
               ELSE IF df_pg_m.rows = {} /\ df_sgm_m.rows = {}
               THEN [page |-> "tab_embudo", desde |-> desde, hasta |-> hasta,
                     status |-> "info"]
               ELSE IF ~ df_sgm_m.columns
               THEN Aborted("tab_embudo", desde, hasta)   \* KeyError: 'mes'
               ELSE [page |-> "tab_embudo", desde |-> desde, hasta |-> hasta,
                     status |-> "ok", df |-> df, kpis |-> EmbudoKpis(df)]
  /\ pc' = "tab_embudo"
  /\ UNCHANGED <<now, cache, propuestas, today, fecha_predefinida, pgTime,
                 vista, stock, t874, cabe, pg, engSgm, engPg, engCx, objects, links>>

(***************************************************************************)
(* Specification SpecKey: orders with null, zero and multi-digit prefixes  *)
(* and suffixes on one day, read by the funnel tab and by Indicador 3.     *)
(***************************************************************************)
KeyPrefixes == {Null, Some(0), Some(1), Some(12)}

KeySuffixes == {Null, Some(0), Some(3), Some(23)}

KeyDay == <<2025, 9, 5>>

KeyRequests == {<< <<2025, 9, 1>>, <<2025, 9, 30>> >>}

InitKey ==
  /\ t874 = {}
  /\ cabe = {}
  /\ pg = {}
  /\ now = 0
  /\ cache = {}
  /\ propuestas = {}
  /\ today = <<2025, 9, 15>>
  /\ fecha_predefinida = Null
  /\ pgTime = [column |-> "timestamp", TimeZone |-> BusinessOffset]
  /\ vista = {}
  /\ stock = {}
  /\ engSgm = "ok"
  /\ engPg = "ok"
  /\ engCx = "ok"
  /\ objects = {}
  /\ links = {}
  /\ pc = "idle"
  /\ out = NoReport

NextKey ==
  \/ InsertT874({Some(1)}, KeyPrefixes, KeySuffixes, {KeyDay})
  \/ InsertCabe(KeyPrefixes, KeySuffixes, {KeyDay}, {1})
  \/ TabEmbudo(KeyRequests)
  \/ Indicador3(KeyRequests)
  \/ Rerun

SpecKey == InitKey /\ [][NextKey]_vars

\* The (prefix, suffix) pairs of a set of rows that have a key at all.
ValidPairs(rows) == {<<r.pre[1], r.suf[1]>> : r \in {x \in rows : PrefSufNonZero(x)}}

\* C1: a record whose prefix or suffix is zero or null has no key, so the
\* distinct-order count of every month of the funnel counts only the keys of
\* the records with both parts non-zero; "0-0" is never counted.
C1_ZeroNeverCounted ==
  (out.page = "tab_embudo" /\ out.status = "ok") =>
    \A row \in out.df :
      row.oc_sgm =
        Cardinality(ValidPairs({r \in KikkerVsOcBase(out.desde, out.hasta) :
                                  MonthStart(r.dia) = row.mes}))

\* "{prefix}-{suffix}"
FormatKey(p, s) == Some(IntText(p) \o <<"-">> \o IntText(s))

\* C10: the key is computed identically on both sides: for a pair with both
\* parts non-zero it is the text "{prefix}-{suffix}" on the T874 side and on
\* the header side, two records have the same key exactly when they have the
\* same pair, the join of Indicador 3 pairs exactly the records with the same
\* key, and the monthly counts of Indicador 3 are the counts of pairs.
C10_KeyIdenticalBothSides ==
  /\ \A t \in t874 : PrefSufNonZero(t) =>
       T874OcSgm(t) = FormatKey(t.pre[1], t.suf[1])
  /\ \A c \in cabe : PrefSufNonZero(c) =>
       CabeOcSgm(c) = FormatKey(c.pre[1], c.suf[1])
  /\ \A t \in t874, c \in cabe : (PrefSufNonZero(t) /\ PrefSufNonZero(c)) =>
       /\ (T874OcSgm(t) = CabeOcSgm(c)) <=> (t.pre = c.pre /\ t.suf = c.suf)
       /\ I3JoinOn(t, c) <=> (T874OcSgm(t) = CabeOcSgm(c))
  /\ (out.page = "indicador3" /\ out.status = "ok") =>
       \A row \in out.df :
         LET cR == {c \in I3CabeR(out.desde, out.hasta) :
                      MonthStart(c.dia) = row.mes}
             tR == I3T874R(out.desde, out.hasta)
         IN  /\ row.oc_totales_sgm = Cardinality(ValidPairs(cR))
             /\ row.oc_desde_connexa =
                  Cardinality(ValidPairs(cR) \cap ValidPairs(tR))

\* C10 witness: Indicador 3 has matched a two-digit prefix with a header of
\* the same pair while another header differs from it only in where the
\* digits are split.
C10_Witness ==
  /\ out.page = "indicador3"
  /\ out.status = "ok"
  /\ \E row \in out.df : row.oc_desde_connexa = 1 /\ row.oc_totales_sgm = 2
  /\ \E t \in t874 : t.pre = Some(12) /\ t.suf = Some(3)
  /\ \E c \in cabe : c.pre = Some(1) /\ c.suf = Some(23)

(***************************************************************************)
(* Specification SpecI3: orders dated in three months around the floors,   *)
(* read by Indicador 3 and the funnel tab for several date ranges.         *)
(***************************************************************************)
I3Days == {<<2025, 7, 15>>, <<2025, 8, 20>>, <<2025, 9, 5>>}

I3Suffixes == {Some(3), Some(4)}

I3Requests ==
  { << <<2025, 5, 1>>, <<2025, 9, 30>> >>,
    << <<2025, 6, 1>>, <<2025, 8, 31>> >>,
    << <<2025, 8, 1>>, <<2025, 9, 30>> >> }

NextI3 ==
  \/ InsertT874({Some(1), Some(2)}, {Some(1)}, I3Suffixes, I3Days)
  \/ InsertCabe({Some(1)}, I3Suffixes, I3Days, {1})
  \/ InsertPg({Some(1), Some(2)}, I3Days, {12}, {1})
  \/ TabEmbudo(I3Requests)
  \/ Indicador3(I3Requests)
  \/ Rerun

SpecI3 == InitKey /\ [][NextI3]_vars

\* C8: the counts are distinct-key counts, the totals of the whole selected
\* range included: a key with several rows in the range counts once in the
\* total of SGM orders, in the total of orders that came from CONNEXA, and in
\* the totals of the funnel.
C8_RangeTotalsDistinct ==
  /\ (out.page = "indicador3" /\ out.status = "ok") =>
       LET cR == I3CabeR(out.desde, out.hasta)
           tR == I3T874R(out.desde, out.hasta)
       IN  /\ out.kpis.total_sgm = Cardinality(ValidPairs(cR))
           /\ out.kpis.total_ci =
                Cardinality(ValidPairs(cR) \cap ValidPairs(tR))
  /\ (out.page = "tab_embudo" /\ out.status = "ok") =>
       out.kpis.total_pedidos =
         Cardinality({r.connexa : r \in {x \in pg :
                        InRange(x.dia, out.desde, out.hasta)}})

\* C9: both sides are restricted to the same date window: for the range of
\* the request, a T874 record and a header record of the same day are either
\* both inside the window of the query or both outside it.
C9_SameWindowBothSides ==
  (out.page = "indicador3" /\ out.status # "aborted") =>
    \A t \in t874, c \in cabe :
      (t.dia = c.dia /\ PrefSufNonZero(t) /\ PrefSufNonZero(c)) =>
        /\ t \in I3T874R(out.desde, out.hasta)
             <=> c \in I3CabeR(out.desde, out.hasta)
        /\ t \in SinCabeT874R(out.desde, out.hasta)
             <=> c \in SinCabeCabeR(out.desde, out.hasta)

(***************************************************************************)
(* Page 02 (Ind 2), tab 2: reconciliation by CONNEXA purchase.             *)
(* A column of a frame is a bag: value |-> number of rows holding it.      *)
(***************************************************************************)
\* Series.astype(str): a missing value becomes a text like any other.
AsTypeStr(x) == IF x = Null THEN Some(<<"N", "o", "n", "e">>)
                ELSE Some(IntText(x[1]))

\* df[[col]]: the values of one column, given row by row as f[row].
Column(f) ==
  [v \in {f[r] : r \in DOMAIN f} |-> Cardinality({r \in DOMAIN f : f[r] = v})]

\* .dropna()
DropNa(col) == [v \in DOMAIN col \ {Null} |-> col[v]]

\* A frame that keeps every repeated row.
KeepDuplicates(col) == col

\* .drop_duplicates()
DropDuplicates(col) == [v \in DOMAIN col |-> 1]

\* SQL_C_COMPRA_KIKKER_GEN with :hasta_mas_1 = hasta + timedelta(days=1)
SqlCCompraKikkerGen(desde, hasta_mas_1) ==
  {r.connexa : r \in {x \in pg : /\ DateLE(desde, PgDate(x, FALSE))
                               /\ DateLT(PgDate(x, FALSE), hasta_mas_1)}}

\* fetch_pg_compra_connexa: the column kikker
FetchPgCompraConnexa(desde, hasta) ==
  LET res == SqlCCompraKikkerGen(desde, NextDay(hasta))
  IN  DropDuplicates(Column([k \in res |-> AsTypeStr(k)]))

\* SQL_SGM_KIKKER_DETALLE
SqlSgmKikkerDetalle(desde, hasta) ==
  {r \in t874 : DateLE(KikkerFloor, r.dia) /\ InRange(r.dia, desde, hasta)}

\* fetch_sgm_detalle: the column C_COMPRA_KIKKER of the detail
FetchSgmDetalle(desde, hasta) ==
  IF engSgm = "none" THEN <<>>
  ELSE Column([r \in SqlSgmKikkerDetalle(desde, hasta) |-> AsTypeStr(r.kikker)])

\* SQL_SGM_KIKKER_DUP and fetch_sgm_dup
SqlSgmKikkerDup(desde, hasta) ==
  LET src == {r \in t874 : InRange(r.dia, desde, hasta)}
      ocs(k) == {T874OcSgm(r) : r \in {x \in src : x.kikker = k}}
  IN  { [C_COMPRA_KIKKER |-> AsTypeStr(k), oc_sgm_unicas |-> CountDistinct(ocs(k))]
        : k \in {g \in {r.kikker : r \in src} : CountDistinct(ocs(g)) > 1} }

FetchSgmDup(desde, hasta) ==
  IF engSgm = "none" THEN {} ELSE SqlSgmKikkerDup(desde, hasta)

\* df_sgm_k
DfSgmK(df_sgm_det) == DropDuplicates(DropNa(df_sgm_det))

\* df_sgm_k.merge(df_pg_k, on="kikker", how="outer", indicator=True), and the
\* estado of each row
EstadoMap(m) ==
  IF m = "both" THEN "OK (1:1)"
  ELSE IF m = "left_only" THEN "SGM sin CONNEXA" ELSE "CONNEXA sin SGM"

MergeOuter(left, right) ==
  LET keys == DOMAIN left \cup DOMAIN right
      ind(k) == IF k \in DOMAIN left /\ k \in DOMAIN right THEN "both"
                ELSE IF k \in DOMAIN left THEN "left_only" ELSE "right_only"
      n(k) == IF k \in DOMAIN left /\ k \in DOMAIN right THEN left[k] * right[k]
              ELSE IF k \in DOMAIN left THEN left[k] ELSE right[k]
  IN  { [kikker |-> k, estado |-> EstadoMap(ind(k)), n |-> n(k)] : k \in keys }

\* recon["estado"].value_counts()
ValueCounts(recon) ==
  { [estado |-> e,
     compras |-> SumOf([r \in recon |-> r.n], {r \in recon : r.estado = e})]
    : e \in {r.estado : r \in recon} }

TabRecon(Requests) ==
  /\ pc = "idle"
  /\ \E q \in Requests :
       LET desde == q[1]
           hasta == q[2]
       IN  out' =
           LET df_pg_k    == FetchPgCompraConnexa(desde, hasta)
               df_sgm_det == FetchSgmDetalle(desde, hasta)
               df_dup     == FetchSgmDup(desde, hasta)
               recon      == MergeOuter(DfSgmK(df_sgm_det), df_pg_k)
           IN  IF engPg # "ok" \/ engSgm = "down"
               THEN Aborted("tab_recon", desde, hasta)
               ELSE IF DOMAIN df_pg_k = {} /\ DOMAIN df_sgm_det = {}
               THEN [page |-> "tab_recon", desde |-> desde, hasta |-> hasta,
                     status |-> "info"]
               ELSE [page |-> "tab_recon", desde |-> desde, hasta |-> hasta,
                     status |-> "ok", recon |-> recon, kpis |-> ValueCounts(recon),
                     dup |-> Cardinality(df_dup), df_dup |-> df_dup]
  /\ pc' = "tab_recon"
  /\ UNCHANGED <<now, cache, propuestas, today, fecha_predefinida, pgTime,
                 vista, stock, t874, cabe, pg, engSgm, engPg, engCx, objects, links>>

(***************************************************************************)
(* Weeks.  Day 0 is Monday 1900-01-01, the date SQL Server reads in 0.     *)
(***************************************************************************)
DayNumber(d) ==
  LET leaps(n) == (n \div 4) - (n \div 100) + (n \div 400)
      y == d[1]
  IN  (y - 1900) * 365 + (leaps(y - 1) - leaps(1899))
        + SumOf([k \in 1..(d[2] - 1) |-> DaysInMonth(y, k)], 1..(d[2] - 1))
        + (d[3] - 1)

\* DATEADD(day, k, d) and date + timedelta(days=k): the date whose day number
\* is that of d plus k, by the days of the 400-year cycle counted from 1 March
AddDays(d, k) ==
  LET z   == DayNumber(d) + k + 693901
      era == z \div 146097
      doe == z - era * 146097
      yoe == (doe - (doe \div 1460) + (doe \div 36524) - (doe \div 146096)) \div 365
      doy == doe - (365 * yoe + (yoe \div 4) - (yoe \div 100))
      mp  == (5 * doy + 2) \div 153
      m   == IF mp < 10 THEN mp + 3 ELSE mp - 9
  IN  <<yoe + era * 400 + (IF m <= 2 THEN 1 ELSE 0), m,
        doy - ((153 * mp + 2) \div 5) + 1>>

\* PostgreSQL: date_trunc('week', f_alta_sist)::date, the Monday of the week
PgWeek(d) == AddDays(d, 0 - (DayNumber(d) % 7))

\* SQL Server: DATEDIFF(week, 0, d) counts the Sundays after day 0 up to d
DateDiffWeek0(d) == (DayNumber(d) + 1) \div 7

\* SQL Server: DATEADD(week, DATEDIFF(week, 0, f_alta_date), 0)
SgmWeek(d) == AddDays(d, 7 * DateDiffWeek0(d) - DayNumber(d))

(***************************************************************************)
(* ISO weeks of page 01.  The view V_USO_SEMANAL_COMPRADOR names a week    *)
(* 'YYYY-WW', ISO year and ISO week; the page turns the text into the      *)
(* Monday of the week.                                                     *)
(***************************************************************************)
\* The ISO year and week of a date: those of the Thursday of its week.
IsoWeekOf(d) ==
  LET th == AddDays(d, 3 - (DayNumber(d) % 7))
  IN  <<th[1], (DayNumber(th) - DayNumber(<<th[1], 1, 1>>)) \div 7 + 1>>

\* 'YYYY-WW' as the view writes it
WeekText(y, w) ==
  IntText(y) \o <<"-">> \o (IF w < 10 THEN <<"0">> ELSE <<>>) \o IntText(w)

\* year_str, week_str = s.split("-")
RECURSIVE SplitDash(_)
SplitDash(s) ==
  IF \A i \in DOMAIN s : s[i] # "-" THEN <<s>>
  ELSE LET i == CHOOSE j \in DOMAIN s :
                  s[j] = "-" /\ \A k \in 1..(j - 1) : s[k] # "-"
       IN  <<SubSeq(s, 1, i - 1)>> \o SplitDash(SubSeq(s, i + 1, Len(s)))

\* int(text): blanks around the digits are accepted; ValueError is Null
RECURSIVE ParseInt(_)
ParseInt(text) ==
  LET digits == <<"0", "1", "2", "3", "4", "5", "6", "7", "8", "9">>
      val(c) == (CHOOSE i \in 1..10 : digits[i] = c) - 1
      t == Strip(text)
  IN  IF t = <<>> \/ \E i \in DOMAIN t : \A j \in 1..10 : digits[j] # t[i]
      THEN Null
      ELSE IF Len(t) = 1 THEN Some(val(t[1]))
      ELSE Some(10 * ParseInt(SubSeq(t, 1, Len(t) - 1))[1] + val(t[Len(t)]))

\* A variant of _calc_julian_from_V whose weeks start on Sunday.
CalcJulianFromVSunday(iso_year, iso_week, iso_weekday) ==
  (iso_week * 7) + iso_weekday - (((DayNumber(<<iso_year, 1, 4>>) % 7) + 1) + 4)

\* _strptime._calc_julian_from_V: the day of the year, 1 for 1 January and
\* 0 or less for the days of the year before
CalcJulianFromV(iso_year, iso_week, iso_weekday) ==
  (iso_week * 7) + iso_weekday - (((DayNumber(<<iso_year, 1, 4>>) % 7) + 1) + 3)

\* _iso_week_monday: datetime.strptime(f"{year}-W{week:02d}-1", "%G-W%V-%u");
\* %G takes four digits and %V 01 to 53; any exception gives NaT, here Null
IsoWeekMonday(yyyy_ww) ==
  LET parts == SplitDash(Strip(yyyy_ww))
      year == ParseInt(parts[1])
      week == ParseInt(parts[2])
  IN  IF Strip(yyyy_ww) = <<>> \/ Len(parts) # 2 THEN Null
      ELSE IF year = Null \/ week = Null THEN Null
      ELSE IF year[1] < 1000 \/ year[1] > 9999 THEN Null
      ELSE IF week[1] < 1 \/ week[1] > 53 THEN Null
      ELSE Some(AddDays(<<year[1], 1, 1>>,
                        CalcJulianFromV(year[1], week[1], 1) - 1))

(***************************************************************************)
(* Page 01: load_uso_general, with the provisioning of _init_mon and the   *)
(* two SGM series of uso_general.  df_oc and df_fp read the views          *)
(* mon.v_oc_generadas_mensual and mon.v_forecast_propuesta_base, whose     *)
(* rows are outside this model; only their connections are followed.       *)
(***************************************************************************)
\* ensure_mon_objects, on diarco_data
MonObjects ==
  {<<"diarco_data", n>> : n \in
     {"mon", "mon.v_oc_generadas_mensual", "mon.v_oc_generadas_mensual_ext",
      "mon.v_oc_generadas_mensual_sucursal_ext", "idx_t080_alta_sist",
      "idx_t080_comprador", "idx_t080_proveedor", "idx_t080_compra_kikker",
      "idx_m9_cod_comprador", "idx_m10_c_proveedor", "idx_m91_id_tienda"}}

\* ensure_forecast_views, on connexa_platform
ForecastObjects ==
  {<<"connexa_platform", n>> : n \in {"mon", "mon.v_forecast_propuesta_base"}}

\* _init_mon: the first exception ends it, and is swallowed
InitMon ==
  IF engPg # "ok" THEN objects
  ELSE IF engCx # "ok" THEN objects \cup MonObjects
  ELSE objects \cup MonObjects \cup ForecastObjects

\* get_embudo_connexa_sgm_mensual, called with an engine for each side
GetEmbudoConnexaSgmMensual(desde, hasta) ==
  Frame(EmbudoMerge(
    { [mes |-> r.mes, pedidos_connexa |-> r.kikker_distintos_pg]
      : r \in SqlPgKikkerMensual(desde, hasta) },
    { [mes |-> r.mes, nips_sgm |-> r.kikker_distintos,
       oc_sgm |-> r.oc_sgm_distintas]
      : r \in SqlSgmKikkerVsOcMensual(desde, hasta) }))

\* pd.to_numeric(df["proporcion_ci"], errors="coerce").fillna(0.0)
FillNaZero(x) == IF x = Null THEN 0 ELSE x[1]

\* get_proporcion_ci_vs_sgm_mensual
GetProporcionCiVsSgmMensual(desde, hasta) ==
  Frame({ [mes |-> r.mes, oc_totales_sgm |-> r.oc_totales_sgm,
           oc_desde_connexa |-> r.oc_desde_connexa,
           proporcion_ci |-> FillNaZero(r.proporcion_ci)]
          : r \in SqlSgmI3Mensual(desde, hasta) })

\* load_uso_semanal_comprador; load_uso_semanal_proveedor does the same by
\* supplier
LoadUsoSemanalComprador(desde, hasta) ==
  IF engSgm = "none" THEN {}
  ELSE { [c_comprador |-> r.c_comprador,
          semana_yyyyww |-> Strip(r.semana),
          semana_inicio |-> IsoWeekMonday(Strip(r.semana))[1],
          total_oc_cnx |-> r.total_oc_cnx,
          total_oc_sgm |-> r.total_oc_sgm,
          pct_connexa_sem |-> RatioOrZero(r.total_oc_cnx, r.total_oc_sgm)]
         : r \in {x \in vista :
                    LET semana_inicio == IsoWeekMonday(Strip(x.semana))
                    IN  /\ semana_inicio # Null
                        /\ DateLE(desde, semana_inicio[1])
                        /\ DateLE(semana_inicio[1], hasta)} }

LoadUsoGeneral(Requests) ==
  /\ pc = "idle"
  /\ \E q \in Requests :
       LET desde == q[1]
           hasta == q[2]
       IN  out' =
           IF engPg # "ok" \/ engCx # "ok" \/ engSgm = "down"
           THEN Aborted("uso_general", desde, hasta)
           ELSE [page |-> "uso_general", desde |-> desde, hasta |-> hasta,
                 status |-> "ok",
                 df_emb |-> IF engSgm = "none" THEN NoColumns
                            ELSE GetEmbudoConnexaSgmMensual(desde, hasta),
                 df_prop |-> IF engSgm = "none" THEN NoColumns
                             ELSE GetProporcionCiVsSgmMensual(desde, hasta),
                 df_uso_sem |-> LoadUsoSemanalComprador(desde, hasta)]
  /\ objects' = InitMon
  /\ pc' = "uso_general"
  /\ UNCHANGED <<now, cache, propuestas, today, fecha_predefinida, pgTime,
                 vista, stock, t874, cabe, pg, engSgm, engPg, engCx, links>>

(***************************************************************************)
(* Specification SpecRecon: purchases of CONNEXA and their rows in SGM,    *)
(* with the SQL Server engine configured or not, and servers that fail.    *)
(***************************************************************************)
ReconKikkers == {Null, Some(1), Some(2)}

ReconSuffixes == {Some(3), Some(4)}

ReconDay == <<2025, 9, 5>>

ReconRequests == {<< <<2025, 9, 1>>, <<2025, 9, 30>> >>}

InitRecon ==
  /\ t874 = {}
  /\ cabe = {}
  /\ pg = {}
  /\ now = 0
  /\ cache = {}
  /\ propuestas = {}
  /\ today = <<2025, 9, 15>>
  /\ fecha_predefinida = Null
  /\ pgTime = [column |-> "timestamp", TimeZone |-> BusinessOffset]
  /\ vista = {}
  /\ stock = {}
  /\ engSgm \in {"ok", "none"}
  /\ engPg = "ok"
  /\ engCx = "ok"
  /\ objects = {}
  /\ links = {}
  /\ pc = "idle"
  /\ out = NoReport

NextRecon ==
  \/ InsertT874(ReconKikkers, {Some(1)}, ReconSuffixes, {ReconDay})
  \/ InsertPg(ReconKikkers, {ReconDay}, {12}, {1})
  \/ SgmOutage
  \/ PgOutage
  \/ TabRecon(ReconRequests)
  \/ LoadUsoGeneral(ReconRequests)
  \/ Rerun

SpecRecon == InitRecon /\ [][NextRecon]_vars

\* The keys of each side of the reconciliation, for the range of the report.
ReconSgmKeys == {AsTypeStr(r.kikker) : r \in SqlSgmKikkerDetalle(out.desde, out.hasta)}

ReconPgKeys == {AsTypeStr(r.connexa) : r \in {x \in pg : InRange(x.dia, out.desde, out.hasta)}}

\* C2: with both sides read, every distinct key of the union of the two sides
\* is in exactly one row of the reconciliation, with the estado of the side(s)
\* that hold it, and the three counts add up to the number of distinct keys.
C2_PartitionComplete ==
  (out.page = "tab_recon" /\ out.status = "ok" /\ engSgm = "ok") =>
    /\ {r.kikker : r \in out.recon} = ReconSgmKeys \cup ReconPgKeys
    /\ \A k \in ReconSgmKeys \cup ReconPgKeys :
         \E r \in out.recon :
           /\ r.kikker = k
           /\ r.n = 1
           /\ \A r2 \in out.recon : r2.kikker = k => r2 = r
           /\ r.estado = IF k \in ReconSgmKeys /\ k \in ReconPgKeys
                         THEN "OK (1:1)"
                         ELSE IF k \in ReconSgmKeys THEN "SGM sin CONNEXA"
                         ELSE "CONNEXA sin SGM"
    /\ SumOf([r \in out.kpis |-> r.compras], out.kpis)
         = Cardinality(ReconSgmKeys \cup ReconPgKeys)

\* C2 witness: a purchase with two rows in SGM, and keys in two estados.
C2_Witness ==
  /\ out.page = "tab_recon"
  /\ out.status = "ok"
  /\ engSgm = "ok"
  /\ \E a, b \in t874 : a # b /\ a.kikker = b.kikker /\ a.kikker # Null
  /\ Cardinality(out.kpis) = 2

\* C5: when SGM cannot be read, the reconciliation is neither a normal
\* result nor the "no data" message: it carries a status of its own, and no
\* purchase is reported as missing in SGM.
C5_DestinationUnavailableDistinguished ==
  (out.page = "tab_recon" /\ engSgm # "ok") =>
    /\ out.status \notin {"ok", "info"}
    /\ out.status = "ok" =>
         \A r \in out.recon : r.estado # "CONNEXA sin SGM"

\* C6: when exactly one side fails, the report is not aborted and the monthly
\* counts of the side that answered are in the result.
C6_OneSideFailureNotAborted ==
  (out.page = "uso_general" /\ engCx = "ok" /\ engPg = "ok" /\ engSgm # "ok") =>
    /\ out.status # "aborted"
    /\ \A r \in SqlPgKikkerMensual(out.desde, out.hasta) :
         \E row \in out.df_emb.rows :
           row.mes = r.mes /\ row.pedidos_connexa = r.kikker_distintos_pg

(***************************************************************************)
(* Page 02 (Gestion de Compradores): the frame by buyer and the weekly     *)
(* sheets.  A ratio is a nullable fraction.                                *)
(***************************************************************************)
\* SQL_PG_CONNEXA_COMPRADOR
SqlPgConnexaComprador(desde, hasta) ==
  LET base == {r \in pg : InRange(PgDate(r, FALSE), desde, hasta)}
  IN  { [c_comprador |-> b,
         oc_connexa |-> CountDistinct({r.connexa : r \in {x \in base : x.comprador = b}})]
        : b \in {r.comprador : r \in base} }

\* cabe of the buyer queries: windowed, both parts non-zero, no floor
CompradorCabe(desde, hasta) ==
  {c \in cabe : InRange(c.dia, desde, hasta) /\ PrefSufNonZero(c)}

\* SQL_SGM_COMPRADOR
SqlSgmComprador(desde, hasta) ==
  LET cab == CompradorCabe(desde, hasta)
      t   == {<<CastVarchar(r.pre), CastVarchar(r.suf)>> :
                r \in {x \in t874 : InRange(x.dia, desde, hasta) /\ PrefSufNonZero(x)}}
      es_connexa(c) == \E u \in t : /\ SqlEq(u[1], CastVarchar(c.pre))
                                    /\ SqlEq(u[2], CastVarchar(c.suf))
      of(b) == {c \in cab : c.comprador = b}
  IN  { [c_comprador |-> b,
         oc_sgm_total |-> CountDistinct({CabeOcSgm(c) : c \in of(b)}),
         oc_sgm_desde_connexa |->
           CountDistinct({CabeOcSgm(c) : c \in {x \in of(b) : es_connexa(x)}}),
         oc_sgm_directas |->
           CountDistinct({CabeOcSgm(c) : c \in {x \in of(b) : ~ es_connexa(x)}})]
        : b \in {c.comprador : c \in cab} }

\* df: outer merge by c_comprador, _ensure_numeric_cols, pct_connexa and
\* pct_connexa_en_sgm
MasterCompradores(df_cx, df_sgm) ==
  LET cx(b)  == {r \in df_cx : r.c_comprador = b}
      sgm(b) == {r \in df_sgm : r.c_comprador = b}
      oc_connexa(b) == IF cx(b) = {} THEN 0 ELSE (CHOOSE r \in cx(b) : TRUE).oc_connexa
      total(b) == IF sgm(b) = {} THEN 0 ELSE (CHOOSE r \in sgm(b) : TRUE).oc_sgm_total
      desde_cx(b) == IF sgm(b) = {} THEN 0
                     ELSE (CHOOSE r \in sgm(b) : TRUE).oc_sgm_desde_connexa
      directas(b) == IF sgm(b) = {} THEN 0
                     ELSE (CHOOSE r \in sgm(b) : TRUE).oc_sgm_directas
  IN  { [c_comprador |-> b,
         oc_connexa |-> oc_connexa(b),
         oc_sgm_total |-> total(b),
         oc_sgm_desde_connexa |-> desde_cx(b),
         oc_sgm_directas |-> directas(b),
         oc_total_actividad |-> desde_cx(b) + directas(b),
         pct_connexa |-> RatioOrZero(desde_cx(b), desde_cx(b) + directas(b)),
         pct_connexa_en_sgm |-> RatioOrZero(desde_cx(b), total(b))]
        : b \in {r.c_comprador : r \in df_cx} \cup {r.c_comprador : r \in df_sgm} }

\* _sql_pg_ci_weekly_by_buyer and _sql_sgm_weekly_by_buyer; the global
\* queries are the same without the buyer, here buyer 0
SqlPgCiWeekly(desde, hasta, byBuyer) ==
  LET base == {r \in pg : InRange(PgDate(r, FALSE), desde, hasta)}
      grp(r) == <<PgWeek(PgDate(r, FALSE)), IF byBuyer THEN r.comprador ELSE 0>>
  IN  { [semana |-> g[1], c_comprador |-> g[2],
         oc_ci |-> CountDistinct({r.connexa : r \in {x \in base : grp(x) = g}})]
        : g \in {grp(r) : r \in base} }

SqlSgmWeekly(desde, hasta, byBuyer) ==
  LET cab == CompradorCabe(desde, hasta)
      grp(c) == <<SgmWeek(c.dia), IF byBuyer THEN c.comprador ELSE 0>>
  IN  { [semana |-> g[1], c_comprador |-> g[2],
         oc_sgm_total |-> CountDistinct({CabeOcSgm(c) : c \in {x \in cab : grp(x) = g}})]
        : g \in {grp(c) : c \in cab} }

\* df_week_global / df_week_buyer: outer merge, fillna(0), pct_ci_sobre_sgm
WeekSheet(df_sgm_w, df_ci_w) ==
  LET key(r) == <<r.semana, r.c_comprador>>
      sgm(g) == {r \in df_sgm_w : key(r) = g}
      ci(g)  == {r \in df_ci_w : key(r) = g}
      total_oc_sgm(g) == IF sgm(g) = {} THEN 0
                         ELSE (CHOOSE r \in sgm(g) : TRUE).oc_sgm_total
      total_oc_ci(g) == IF ci(g) = {} THEN 0 ELSE (CHOOSE r \in ci(g) : TRUE).oc_ci
  IN  { [semana |-> g[1], c_comprador |-> g[2],
         total_oc_sgm |-> total_oc_sgm(g),
         total_oc_ci |-> total_oc_ci(g),
         pct_ci_sobre_sgm |-> RatioOrZero(total_oc_ci(g), total_oc_sgm(g))]
        : g \in {key(r) : r \in df_sgm_w} \cup {key(r) : r \in df_ci_w} }

\* SQL_PG_CONNEXA_MENSUAL: date_trunc('month', f_alta_sist)::date, GROUP BY 1, 2
SqlPgConnexaMensual(desde, hasta) ==
  LET base == {r \in pg : InRange(PgDate(r, FALSE), desde, hasta)}
      grp(r) == <<MonthStart(PgDate(r, FALSE)), r.comprador>>
  IN  { [mes |-> g[1], c_comprador |-> g[2],
         oc_connexa |-> CountDistinct({r.connexa : r \in {x \in base : grp(x) = g}})]
        : g \in {grp(r) : r \in base} }

\* The script of the page.  load_sgm_resumen gives pd.DataFrame() without an
\* engine, and the merge on c_comprador then raises KeyError.
GestionCompradoresReport(desde, hasta) ==
  IF engPg # "ok" \/ engSgm # "ok"
  THEN Aborted("gestion_compradores", desde, hasta)
  ELSE [page |-> "gestion_compradores", desde |-> desde,
        hasta |-> hasta, status |-> "ok",
        df |-> MasterCompradores(SqlPgConnexaComprador(desde, hasta),
                                 SqlSgmComprador(desde, hasta)),
        df_week_global |-> WeekSheet(SqlSgmWeekly(desde, hasta, FALSE),
                                     SqlPgCiWeekly(desde, hasta, FALSE)),
        df_week_buyer |-> WeekSheet(SqlSgmWeekly(desde, hasta, TRUE),
                                    SqlPgCiWeekly(desde, hasta, TRUE)),
        df_cx_m |-> SqlPgConnexaMensual(desde, hasta)]

GestionCompradores(Requests) ==
  /\ pc = "idle"
  /\ \E q \in Requests : out' = GestionCompradoresReport(q[1], q[2])
  /\ pc' = "gestion_compradores"
  /\ UNCHANGED <<now, cache, propuestas, today, fecha_predefinida, pgTime,
                 vista, stock, t874, cabe, pg, engSgm, engPg, engCx, objects, links>>

(***************************************************************************)
(* Specification of the buyer page: two buyers, orders on a Friday, the    *)
(* Sunday after it and the Monday after that.                              *)
(***************************************************************************)
RatioBuyers == {1, 2}
RatioDays == {<<2025, 9, 5>>, <<2025, 9, 7>>, <<2025, 9, 8>>}
RatioSuffixes == {Some(3), Some(4)}
RatioKikkers == {Some(1), Some(2)}
RatioRequests == {<<(<<2025, 9, 1>>), (<<2025, 9, 30>>)>>}

NextRatio ==
  \/ InsertT874({Some(1)}, {Some(1)}, RatioSuffixes, RatioDays)
  \/ InsertCabe({Some(1)}, RatioSuffixes, RatioDays, RatioBuyers)
  \/ InsertPg(RatioKikkers, RatioDays, {12}, RatioBuyers)
  \/ SgmOutage
  \/ PgOutage
  \/ GestionCompradores(RatioRequests)
  \/ Rerun

SpecRatio == InitRecon /\ [][NextRatio]_vars

RatioReported == out.page = "gestion_compradores" /\ out.status = "ok"

\* C3: in the frame by buyer the adoption ratio is undefined exactly for the
\* buyers whose matched and destination-only orders add up to zero; the page
\* reports no 0.0 in their place.
C3_UndefinedExactlyOnZeroDenominator ==
  RatioReported =>
    \A r \in out.df :
      (r.pct_connexa = Null) <=> (r.oc_sgm_desde_connexa + r.oc_sgm_directas = 0)

\* C4: every adoption ratio the buyer page reports, by buyer, by week and by
\* week and buyer, lies between 0 and 1 when it is defined.
C4_RatioWithinUnitInterval ==
  RatioReported =>
    LET InUnit(x) == x = Null \/ (x[1].den > 0 /\ 0 <= x[1].num /\ x[1].num <= x[1].den)
    IN  /\ \A r \in out.df : InUnit(r.pct_connexa) /\ InUnit(r.pct_connexa_en_sgm)
        /\ \A r \in out.df_week_global \cup out.df_week_buyer : InUnit(r.pct_ci_sobre_sgm)

(***************************************************************************)
(* Page 12 (Carga masiva de proveedores), on connexa_platform.  A sheet is *)
(* the sequence of its ext_code cells, each a text.                        *)
(***************************************************************************)
CxOutage ==
  /\ pc = "idle"
  /\ engCx' = IF engCx = "ok" THEN "down" ELSE "ok"
  /\ UNCHANGED <<now, cache, propuestas, today, fecha_predefinida, pgTime,
                 vista, stock, t874, cabe, pg, engSgm, engPg, objects, links, pc, out>>

\* init_db_objects: CREATE EXTENSION IF NOT EXISTS, ADD CONSTRAINT if missing
Page12Objects ==
  {<<"connexa_platform", n>> : n \in {"pgcrypto", "uq_prc_buyer_supplier"}}

\* public.fnd_supplier; ext_code is not unique there
FndSupplier ==
  { [id |-> 10, ext_code |-> <<"A">>],
    [id |-> 11, ext_code |-> <<"B">>],
    [id |-> 12, ext_code |-> <<"B">>] }

\* load_excel: strip, drop the blank codes, drop_duplicates
LoadExcel(file) == {Strip(file[i]) : i \in DOMAIN file} \ {<<>>}

\* A variant of process_upload that first clears the links of the buyer.
ProcessUploadReplace(table, buyer_id, df_upload) ==
  LET kept == {l \in table : l[1] # buyer_id}
      matched == {m \in df_upload \X FndSupplier : m[2].ext_code = m[1]}
      inserted == {<<buyer_id, m[2].id>> : m \in matched} \ kept
  IN  [links |-> kept \cup inserted,
       inserted |-> Cardinality(inserted),
       omitted |-> Cardinality(matched) - Cardinality(inserted),
       missing |-> Cardinality({u \in df_upload :
                                  \A fs \in FndSupplier : fs.ext_code # u})]

\* A variant of process_upload whose INSERT has no ON CONFLICT DO NOTHING and
\* returns every matched row.
ProcessUploadAppend(table, buyer_id, df_upload) ==
  LET matched == {m \in df_upload \X FndSupplier : m[2].ext_code = m[1]}
  IN  [links |-> table \cup {<<buyer_id, m[2].id>> : m \in matched},
       inserted |-> Cardinality(matched),
       omitted |-> 0,
       missing |-> Cardinality({u \in df_upload :
                                  \A fs \in FndSupplier : fs.ext_code # u})]

\* process_upload on public.prc_buyer_supplier as it stands (table):
\* INSERT ... JOIN fnd_supplier ON CONFLICT DO NOTHING
ProcessUpload(table, buyer_id, df_upload) ==
  LET matched == {m \in df_upload \X FndSupplier : m[2].ext_code = m[1]}
      inserted == {<<buyer_id, m[2].id>> : m \in matched} \ table
  IN  [links |-> table \cup inserted,
       inserted |-> Cardinality(inserted),
       omitted |-> Cardinality(matched) - Cardinality(inserted),
       missing |-> Cardinality({u \in df_upload :
                                  \A fs \in FndSupplier : fs.ext_code # u})]

\* The script of the page: objects, buyers, and the upload when "Procesar"
\* is pressed with a sheet.
CargaMasiva(Buyers, Files) ==
  /\ pc = "idle"
  /\ IF engCx # "ok"
     THEN /\ out' = [page |-> "carga_masiva", status |-> "stopped"]
          /\ UNCHANGED <<objects, links>>
     ELSE /\ objects' = objects \cup Page12Objects
          /\ \E process \in BOOLEAN, buyer_id \in Buyers, file \in Files :
               IF ~ process
               THEN /\ out' = [page |-> "carga_masiva", status |-> "waiting"]
                    /\ UNCHANGED links
               ELSE LET report == ProcessUpload(links, buyer_id, LoadExcel(file))
                    IN  /\ links' = report.links
                        /\ out' = [page |-> "carga_masiva", status |-> "ok",
                                   buyer_id |-> buyer_id,
                                   df_upload |-> LoadExcel(file),
                                   inserted |-> report.inserted,
                                   omitted |-> report.omitted,
                                   missing |-> report.missing]
  /\ pc' = "carga_masiva"
  /\ UNCHANGED <<now, cache, propuestas, today, fecha_predefinida, pgTime,
                 vista, stock, t874, cabe, pg, engSgm, engPg, engCx>>

(***************************************************************************)
(* Specification SpecWrites: every page of the monitor next to the writes  *)
(* the source systems make themselves.                                     *)
(***************************************************************************)
WriteBuyers == {1, 2}
WriteFiles ==
  { <<(<<"A">>)>>,
    <<(<<" ", "B">>), (<<"B", " ">>)>>,
    <<(<<"A">>), (<<"B">>), (<<"Z">>), (<<" ">>)>> }

NextWrites ==
  \/ InsertT874({Some(1)}, {Some(1)}, {Some(3)}, {ReconDay})
  \/ InsertCabe({Some(1)}, {Some(3)}, {ReconDay}, {1})
  \/ InsertPg({Some(1)}, {ReconDay}, {12}, {1})
  \/ PgOutage
  \/ CxOutage
  \/ LoadUsoGeneral(ReconRequests)
  \/ TabEmbudo(ReconRequests)
  \/ TabRecon(ReconRequests)
  \/ Indicador3(ReconRequests)
  \/ GestionCompradores(ReconRequests)
  \/ CargaMasiva(WriteBuyers, WriteFiles)
  \/ Rerun

SpecWrites == InitRecon /\ [][NextWrites]_vars

\* A step in which a page of the monitor runs
PageRuns == pc = "idle" /\ pc' # "idle"

NextDup ==
  \/ InsertT874(ReconKikkers, KeyPrefixes, ReconSuffixes, {ReconDay})
  \/ InsertPg(ReconKikkers, {ReconDay}, {12}, {1})
  \/ SgmOutage
  \/ TabRecon(ReconRequests)
  \/ Rerun

SpecDup == InitRecon /\ [][NextDup]_vars

\* C11: with SGM answering, the purchases the reconciliation tab lists as
\* having more than one SGM order are exactly the purchases whose rows of the
\* window carry more than one distinct order key, a zero or missing prefix
\* or suffix giving no key; each is listed once and the count is their number.
C11_DuplicatesExact ==
  (out.page = "tab_recon" /\ out.status = "ok" /\ engSgm = "ok") =>
    LET src == {r \in t874 : InRange(r.dia, out.desde, out.hasta)}
        keys(k) == {T874OcSgm(r) : r \in {x \in src : x.kikker = k /\ PrefSufNonZero(x)}}
        split == {k \in {r.kikker : r \in src} : Cardinality(keys(k)) > 1}
    IN  /\ {d.C_COMPRA_KIKKER : d \in out.df_dup} = {AsTypeStr(k) : k \in split}
        /\ out.dup = Cardinality(split)

(***************************************************************************)
(* Specification SpecWeek: the weekly view holds a row whose week text is  *)
(* one the view writes, for the years 2024 to 2026, or a text that names   *)
(* no ISO week.                                                            *)
(***************************************************************************)
WeekYears == {2024, 2025, 2026}

\* 28 December is always in the last ISO week of its year.
ValidWeeks == {p \in WeekYears \X (1..53) : p[2] <= IsoWeekOf(<<p[1], 12, 28>>)[2]}

WeekTexts ==
  {WeekText(p[1], p[2]) : p \in ValidWeeks}
    \cup {WeekText(2024, 53), WeekText(2025, 53), WeekText(2025, 0),
          WeekText(2025, 54), <<"2", "0", "2", "5", "-", "7">>,
          <<"2", "0", "2", "5", "-", "1", "0", " ">>, <<"2", "0", "2", "5">>,
          <<"2", "5", "-", "1", "0">>, <<"N", "o", "n", "e">>}

WeekRequests ==
  { <<(<<2023, 12, 1>>), (<<2026, 12, 31>>)>>,
    <<(<<2025, 1, 1>>), (<<2025, 12, 31>>)>> }

NextWeek ==
  \/ InsertVista({1}, WeekTexts, {1}, {1})
  \/ LoadUsoGeneral(WeekRequests)
  \/ Rerun

SpecWeek == InitRecon /\ [][NextWeek]_vars

WeekReported == out.page = "uso_general" /\ out.status = "ok"

\* The (year, week) a week text names, Null when it names none
NamedWeek(text) ==
  LET parts == SplitDash(Strip(text))
  IN  IF Len(parts) # 2 \/ ParseInt(parts[1]) = Null \/ ParseInt(parts[2]) = Null
      THEN Null
      ELSE Some(<<ParseInt(parts[1])[1], ParseInt(parts[2])[1]>>)

\* C12: for every valid ISO (year, week), the Monday the page computes from
\* the text of that week lies in that same ISO year and week.
C12_IsoWeekRoundTrip ==
  WeekReported =>
    \A r \in out.df_uso_sem :
      LET p == NamedWeek(r.semana_yyyyww)
      IN  (/\ p # Null
           /\ p[1] \in ValidWeeks
           /\ r.semana_yyyyww = WeekText(p[1][1], p[1][2]))
            => IsoWeekOf(r.semana_inicio) = p[1]

C12_Witness ==
  /\ WeekReported
  /\ \E r \in out.df_uso_sem :
       /\ r.semana_yyyyww = WeekText(2026, 53)
       /\ r.semana_inicio = <<2026, 12, 28>>

\* C13: every row of the weekly series stands in the ISO week its text
\* names; a text that names no valid ISO week has no row in the series.
C13_InvalidWeekNeverBucketed ==
  WeekReported =>
    \A r \in out.df_uso_sem :
      /\ NamedWeek(r.semana_yyyyww) # Null
      /\ IsoWeekOf(r.semana_inicio) = NamedWeek(r.semana_yyyyww)[1]

\* C14: the result carries the number of rows dropped because their week
\* text did not parse.
C14_DroppedRowsCounted ==
  (WeekReported /\ engSgm = "ok") =>
    LET dropped == {x \in vista : IsoWeekMonday(x.semana) = Null}
        counted == IF "parse_errors" \in DOMAIN out THEN out.parse_errors ELSE 0
    IN  counted = Cardinality(dropped)

(***************************************************************************)
(* Specification SpecMonth: purchases registered in the first and the last *)
(* hours of a day at the turn of a month, on a PostgreSQL server whose     *)
(* column type and session TimeZone are those of the installation.         *)
(***************************************************************************)
MonthDays == {<<2025, 8, 31>>, <<2025, 9, 1>>}

MonthHours == {1, 12, 22}

MonthRequests == {<< <<2025, 8, 1>>, <<2025, 9, 30>> >>}

\* get_pg_engine sets no TimeZone: the sessions run in that of the server
InitMonth ==
  /\ t874 = {}
  /\ cabe = {}
  /\ pg = {}
  /\ now = 0
  /\ cache = {}
  /\ propuestas = {}
  /\ today = <<2025, 9, 15>>
  /\ fecha_predefinida = Null
  /\ pgTime \in [column : {"timestamp", "timestamptz"},
                 TimeZone : {BusinessOffset, 0}]
  /\ vista = {}
  /\ stock = {}
  /\ engSgm = "ok"
  /\ engPg = "ok"
  /\ engCx = "ok"
  /\ objects = {}
  /\ links = {}
  /\ pc = "idle"
  /\ out = NoReport

NextMonth ==
  \/ InsertPg({Some(1), Some(2)}, MonthDays, MonthHours, {1})
  \/ TabEmbudo(MonthRequests)
  \/ GestionCompradores(MonthRequests)
  \/ Rerun

SpecMonth == InitMonth /\ [][NextMonth]_vars

\* The month of a purchase on the clock of Buenos Aires: a timestamp is that
\* clock already, a timestamptz is three hours ahead of it.
BusinessMonths ==
  {MonthStart(IF pgTime.column = "timestamptz" /\ r.hora + BusinessOffset < 0
              THEN PrevDay(r.dia) ELSE r.dia) : r \in pg}

\* C15: in month mode every record is counted in the month of its Buenos
\* Aires date, in the funnel of Ind 2 (SQL_PG_KIKKER_MENSUAL) and in the
\* monthly evolution by buyer (SQL_PG_CONNEXA_MENSUAL) alike: the months
\* with purchases in either report are the Buenos Aires months of the
\* purchases.
C15_MonthByBusinessZone ==
  /\ (out.page = "tab_embudo" /\ out.status = "ok") =>
        {r.mes : r \in {x \in out.df : x.pedidos_connexa > 0}} = BusinessMonths
  /\ (out.page = "gestion_compradores" /\ out.status = "ok") =>
        {r.mes : r \in out.df_cx_m} = BusinessMonths

(***************************************************************************)
(* Week mode of the buyer page, under SpecRatio.                           *)
(***************************************************************************)
\* The latest Monday on or before d; 1 January 1900, day 0, is a Monday.
MondayOnOrBefore(d) ==
  AddDays(d, 0 - (CHOOSE k \in 0..6 : (DayNumber(d) - k) % 7 = 0))

\* C16: in week mode an order dated d is counted in the week whose Monday is
\* the latest Monday on or before d, on the SGM side and on the CONNEXA side
\* alike: each row of the global weekly sheet counts the orders of SGM and
\* the purchases of CONNEXA of the seven days from its Monday.
C16_SameWeekBothSides ==
  (out.page = "gestion_compradores" /\ out.status = "ok") =>
    \A row \in out.df_week_global :
      /\ row.total_oc_sgm =
           CountDistinct({CabeOcSgm(c) :
             c \in {x \in CompradorCabe(out.desde, out.hasta) :
                      MondayOnOrBefore(x.dia) = row.semana}})
      /\ row.total_oc_ci =
           CountDistinct({r.connexa :
             r \in {x \in pg : /\ InRange(x.dia, out.desde, out.hasta)
                               /\ MondayOnOrBefore(x.dia) = row.semana}})

(***************************************************************************)
(* Page 07 (Stock por Sucursal).  datamart.mv_stock_cartera_30d does not   *)
(* exist, so load_dataset runs SQL_FALLBACK_STOCK_CARTERA_30D.  A row of   *)
(* stock is a row of src.base_stock_sucursal with the units sold in the    *)
(* last 30 days (Null: no sale) and active_for_purchase of its article.    *)
(* The selectors of branch, supplier and buyer stay on every value.        *)
(***************************************************************************)
StockRow(a, st, res, ds, q, u, act) ==
  [codigo_articulo |-> a, stock |-> st, stock_reserva |-> res,
   dias_stock |-> ds, q_dias_stock |-> q, unidades_30d |-> u,
   active_for_purchase |-> act]

\* The nightly load writes the stock of an article.
InsertStock(A, St, Res, Ds, Q, U, Act) ==
  /\ pc = "idle"
  /\ Cardinality(stock) < MaxStock
  /\ \E a \in A, st \in St, res \in Res, ds \in Ds, q \in Q, u \in U, act \in Act :
       /\ \A r \in stock : r.codigo_articulo # a
       /\ stock' = stock \cup {StockRow(a, st, res, ds, q, u, act)}
  /\ UNCHANGED <<now, cache, propuestas, today, fecha_predefinida, pgTime,
                 vista, t874, cabe, pg, engSgm, engPg, engCx, objects,
                 links, pc, out>>

\* Exact comparison of two quotients with positive denominators
FracGT(a, b) == a.num * b.den > b.num * a.den

\* SQL_FALLBACK_STOCK_CARTERA_30D
SqlFallbackStockCartera30d ==
  { LET venta == IF r.unidades_30d = Null THEN Frac(0, 1)
                 ELSE Frac(r.unidades_30d[1], 30)
    IN  [codigo_articulo |-> r.codigo_articulo,
         stock |-> r.stock,
         stock_reserva |-> r.stock_reserva,
         active_for_purchase |-> r.active_for_purchase,
         venta_promedio_diaria_30d |-> venta,
         dias_stock |->
           IF r.dias_stock # Null /\ r.dias_stock # Some(0)
           THEN Some(Frac(r.dias_stock[1], 1))
           ELSE IF venta.num > 0
           THEN Some(Frac((r.stock + r.stock_reserva) * venta.den, venta.num))
           ELSE Null,
         q_dias_stock |-> r.q_dias_stock]
    : r \in stock }

\* A flag on every article without sales, stock or no stock
SinVentaAnyStock(venta_promedio_diaria_30d, stock_total) ==
  venta_promedio_diaria_30d.num = 0

\* df["sin_venta_30d_con_stock"]
SinVenta30dConStock(venta_promedio_diaria_30d, stock_total) ==
  venta_promedio_diaria_30d.num = 0 /\ stock_total > 0

\* preparar_dataset
PrepararDataset(df) ==
  { [codigo_articulo |-> r.codigo_articulo,
     stock |-> r.stock,
     stock_reserva |-> r.stock_reserva,
     active_for_purchase |-> r.active_for_purchase,
     venta_promedio_diaria_30d |-> r.venta_promedio_diaria_30d,
     stock_total |-> r.stock + r.stock_reserva,
     dias_stock |-> r.dias_stock,
     q_dias_stock |-> r.q_dias_stock,
     sin_venta_30d_con_stock |->
       SinVenta30dConStock(r.venta_promedio_diaria_30d, r.stock + r.stock_reserva),
     falta_cobertura |->
       /\ r.q_dias_stock # Null
       /\ r.dias_stock # Null
       /\ FracGT(Frac(r.q_dias_stock[1], 1), r.dias_stock[1])]
    : r \in df }

\* A threshold with the tolerance fixed at its default, 7 days
DiasMaxObjetivoFixed(q_dias_stock, tolerancia_dias) ==
  IF q_dias_stock # Null THEN Some(q_dias_stock[1] + 7) ELSE Null

\* df_f["dias_max_objetivo"]
DiasMaxObjetivo(q_dias_stock, tolerancia_dias) ==
  IF q_dias_stock # Null THEN Some(q_dias_stock[1] + tolerancia_dias) ELSE Null

\* df_f["sobre_stock_param"]: a comparison with NaN is False
SobreStockParam(dias_stock, dias_max_objetivo) ==
  /\ dias_max_objetivo # Null
  /\ dias_stock # Null
  /\ FracGT(dias_stock[1], Frac(dias_max_objetivo[1], 1))

\* The script of the page
StockPorSucursal(Tolerancias) ==
  /\ pc = "idle"
  /\ \E tolerancia_dias \in Tolerancias,
        solo_activos_compra \in BOOLEAN, solo_con_stock \in BOOLEAN :
       LET df == PrepararDataset(SqlFallbackStockCartera30d)
           df_f == {r \in df :
                      /\ solo_activos_compra => r.active_for_purchase
                      /\ solo_con_stock => r.stock_total > 0}
       IN  out' =
             IF engPg # "ok" THEN [page |-> "stock_sucursal", status |-> "aborted"]
             ELSE IF df = {} THEN [page |-> "stock_sucursal", status |-> "warning"]
             ELSE [page |-> "stock_sucursal", status |-> "ok",
                   tolerancia_dias |-> tolerancia_dias,
                   df_f |->
                     { [codigo_articulo |-> r.codigo_articulo,
                        stock |-> r.stock,
                        stock_reserva |-> r.stock_reserva,
                        stock_total |-> r.stock_total,
                        venta_promedio_diaria_30d |-> r.venta_promedio_diaria_30d,
                        dias_stock |-> r.dias_stock,
                        q_dias_stock |-> r.q_dias_stock,
                        sin_venta_30d_con_stock |-> r.sin_venta_30d_con_stock,
                        falta_cobertura |-> r.falta_cobertura,
                        dias_max_objetivo |->
                          DiasMaxObjetivo(r.q_dias_stock, tolerancia_dias),
                        sobre_stock_param |->
                          SobreStockParam(r.dias_stock,
                            DiasMaxObjetivo(r.q_dias_stock, tolerancia_dias))]
                       : r \in df_f }]
  /\ pc' = "stock_sucursal"
  /\ UNCHANGED <<now, cache, propuestas, today, fecha_predefinida, pgTime,
                 vista, stock, t874, cabe, pg, engSgm, engPg, engCx,
                 objects, links>>

(***************************************************************************)
(* Specification SpecStock: articles with and without stock, sales, days   *)
(* of stock from the source and minimum days, read with three tolerances.  *)
(***************************************************************************)
StockArticles == {1, 2}

StockUnits == {0, 40}

StockReserves == {0, 10}

StockDays == {Null, Some(0), Some(15), Some(90)}

StockMinDays == {Null, Some(10)}

StockSales == {Null, Some(150)}

Tolerancias == {0, 7, 60}

NextStock ==
  \/ InsertStock(StockArticles, StockUnits, StockReserves, StockDays,
                 StockMinDays, StockSales, BOOLEAN)
  \/ PgOutage
  \/ StockPorSucursal(Tolerancias)
  \/ Rerun

SpecStock == InitKey /\ [][NextStock]_vars

\* The row of src.base_stock_sucursal behind a row of the report
StockOf(r) == CHOOSE x \in stock : x.codigo_articulo = r.codigo_articulo

\* Units sold a day in the last 30 days, times 30
Consumption30(x) == IF x.unidades_30d = Null THEN 0 ELSE x.unidades_30d[1]

StockReported == out.page = "stock_sucursal" /\ out.status = "ok"

\* C17: the days of stock of a row are (stock + stock_reserva) divided by the
\* average daily sale of 30 days when that sale is positive, and are
\* undefined when it is zero.
C17_CoverageDays ==
  StockReported =>
    \A r \in out.df_f :
      LET x == StockOf(r)
      IN  IF Consumption30(x) > 0
          THEN /\ r.dias_stock # Null
               /\ r.dias_stock[1].num * Consumption30(x) =
                    (x.stock + x.stock_reserva) * 30 * r.dias_stock[1].den
          ELSE r.dias_stock = Null

\* C18: a row is flagged as overstock exactly when its minimum days are
\* known and its days of stock exceed the minimum days plus the tolerance
\* chosen in the sidebar.
C18_OverstockThreshold ==
  StockReported =>
    \A r \in out.df_f :
      r.sobre_stock_param <=>
        /\ StockOf(r).q_dias_stock # Null
        /\ r.dias_stock # Null
        /\ r.dias_stock[1].num >
             (StockOf(r).q_dias_stock[1] + out.tolerancia_dias) * r.dias_stock[1].den

\* A row of 15 days with a minimum of 10: overstock with tolerance 0 only.
C18_Witness ==
  /\ StockReported
  /\ out.tolerancia_dias = 0
  /\ \E r \in out.df_f :
       /\ r.sobre_stock_param
       /\ r.q_dias_stock = Some(10)
       /\ r.dias_stock = Some(Frac(15, 1))

\* C19: a row is flagged as stale with stock exactly when nothing was sold
\* in 30 days and stock + stock_reserva is positive.
C19_StaleWithStock ==
  StockReported =>
    \A r \in out.df_f :
      r.sin_venta_30d_con_stock <=>
        (Consumption30(StockOf(r)) = 0 /\ StockOf(r).stock + StockOf(r).stock_reserva > 0)

\* A report with an article without sales and without stock, not flagged,
\* and one without sales and with stock, flagged.
C19_Witness ==
  /\ StockReported
  /\ \E r \in out.df_f :
       /\ ~ r.sin_venta_30d_con_stock
       /\ Consumption30(StockOf(r)) = 0
       /\ r.stock_total = 0

\* C20: a row without sales and with stock has no days of stock and is not
\* flagged as overstock; no row is stale with stock and overstock at once.
C20_StaleNeverOverstock ==
  StockReported =>
    \A r \in out.df_f :
      /\ (Consumption30(StockOf(r)) = 0 /\ r.stock_total > 0) =>
           (r.dias_stock = Null /\ ~ r.sobre_stock_param)
      /\ ~ (r.sin_venta_30d_con_stock /\ r.sobre_stock_param)

(***************************************************************************)
(* st.cache_data in front of the loaders.  The specifications above run    *)
(* every page with no entry in the cache; SpecCache runs the loaders of    *)
(* pages 01, 02, 07 and 11 through it while the clock advances.            *)
(***************************************************************************)
\* ttl = int(os.getenv("CACHE_TTL_SECONDS", "300"))
ttl == 300

ClockStep == (2 * ttl) \div 3

\* A key that is the function alone
CacheKeyFunctionOnly(fn, args) == <<fn>>

\* The key of an entry: the function and its arguments, those whose name
\* starts with an underscore left out
CacheKey(fn, args) == <<fn, args>>

\* The entry a call is served from: the entry of its key if there is one
\* that has not expired, else a new one with the value computed now.  The
\* request is the source, the range and the filters the value was read with.
CacheCall(fn, expiry, args, request, computed) ==
  LET hit == {e \in cache :
                /\ e.key = CacheKey(fn, args)
                /\ (e.ttl = Null \/ now - e.at < e.ttl[1])}
  IN  IF hit # {} THEN CHOOSE e \in hit : TRUE
      ELSE [key |-> CacheKey(fn, args), request |-> request,
            value |-> computed, at |-> now, ttl |-> expiry]

\* The cache after the calls of a run were served from the entries
CacheStore(entries) ==
  {e \in cache : \A n \in entries : n.key # e.key} \cup entries

\* What a run shows about a call: the request it made, the request that
\* filled the entry, the age of the entry and its time to live
Served(e, request) ==
  [request |-> request, filled_by |-> e.request, age |-> now - e.at,
   ttl |-> e.ttl]

\* Time passes; entries past their time to live are dropped.
Tick ==
  /\ pc = "idle"
  /\ now < MaxClock
  /\ now' = now + ClockStep
  /\ cache' = {e \in cache : e.ttl = Null \/ now' - e.at < e.ttl[1]}
  /\ UNCHANGED <<propuestas, today, fecha_predefinida, pgTime, vista, stock,
                 t874, cabe, pg, engSgm, engPg, engCx, objects, links, pc, out>>

\* connexa_platform writes a line of a proposal of a supplier
InsertPropuesta(Suppliers, Proposals) ==
  /\ pc = "idle"
  /\ Cardinality(propuestas) < MaxPropuestas
  /\ \E sup \in Suppliers, prop \in Proposals :
       /\ [supplier |-> sup, proposal |-> prop] \notin propuestas
       /\ propuestas' = propuestas \cup {[supplier |-> sup, proposal |-> prop]}
  /\ UNCHANGED <<now, cache, today, fecha_predefinida, pgTime, vista, stock,
                 t874, cabe, pg, engSgm, engPg, engCx, objects, links, pc, out>>

\* main() of page 11 (Auditoria de pedidos).  Section 3 reads
\* public.t080_oc_precarga_kikker and section 4 T080_OC_PRECARGA_KIKKER,
\* tables no other page reads; the result keeps the view and the history.
AuditoriaPedidos ==
  /\ pc = "idle"
  /\ pc' = "auditoria_pedidos"
  /\ IF engCx # "ok" \/ engPg # "ok"
     THEN /\ out' = [page |-> "auditoria_pedidos", status |-> "stopped"]
          /\ cache' = cache
     ELSE
       LET cx == "connexa_platform"
           rq_sup == [source |-> cx, filter |-> <<>>]
           e_sup == CacheCall("listar_suppliers", Null, <<>>, rq_sup,
                              {r.supplier : r \in propuestas})
       IN  IF e_sup.value = {}
           THEN /\ out' = [page |-> "auditoria_pedidos", status |-> "info",
                           served |-> {Served(e_sup, rq_sup)}]
                /\ cache' = CacheStore({e_sup})
           ELSE \E supplier \in e_sup.value :
             LET rq_prop == [source |-> cx, filter |-> <<supplier>>]
                 e_prop == CacheCall("listar_proposals", Null, <<supplier>>, rq_prop,
                             {r.proposal : r \in {x \in propuestas : x.supplier = supplier}})
             IN  IF e_prop.value = {}
                 THEN /\ out' = [page |-> "auditoria_pedidos", status |-> "info",
                                 served |-> {Served(e_sup, rq_sup),
                                             Served(e_prop, rq_prop)}]
                      /\ cache' = CacheStore({e_sup, e_prop})
                 ELSE \E proposal \in e_prop.value :
                   LET rq_view == [source |-> cx, filter |-> <<supplier, proposal>>]
                       e_view == CacheCall("cargar_resumen_view", Null,
                                   <<supplier, proposal>>, rq_view,
                                   {r \in propuestas : /\ r.supplier = supplier
                                                       /\ r.proposal = proposal})
                       rq_sql == [source |-> "sgm", filter |-> <<proposal>>]
                       e_sql == CacheCall("cargar_precarga_sqlserver", Null,
                                  <<proposal>>, rq_sql,
                                  {r \in t874 : r.kikker = Some(proposal)})
                       ssql_ok == engSgm = "ok"
                   IN  /\ out' = [page |-> "auditoria_pedidos", status |-> "ok",
                                  supplier |-> supplier, proposal |-> proposal,
                                  df_view |-> e_view.value,
                                  df_hist |-> IF ssql_ok THEN Some(e_sql.value)
                                              ELSE Null,
                                  served |->
                                    {Served(e_sup, rq_sup), Served(e_prop, rq_prop),
                                     Served(e_view, rq_view)}
                                    \cup (IF ssql_ok THEN {Served(e_sql, rq_sql)}
                                          ELSE {})]
                       /\ cache' = CacheStore({e_sup, e_prop, e_view}
                                      \cup (IF ssql_ok THEN {e_sql} ELSE {}))
  /\ UNCHANGED <<now, propuestas, today, fecha_predefinida, pgTime, vista, stock,
                 t874, cabe, pg, engSgm, engPg, engCx, objects, links>>

\* load_uso_general(desde, hasta) of page 01, here its frame df_emb
LoadUsoGeneralCached(Requests) ==
  /\ pc = "idle"
  /\ engPg = "ok" /\ engCx = "ok" /\ engSgm = "ok"
  /\ \E q \in Requests :
       LET rq == [source |-> "diarco_data+sgm", filter |-> q]
           e  == CacheCall("load_uso_general", Some(ttl), q, rq,
                           GetEmbudoConnexaSgmMensual(q[1], q[2]))
       IN  /\ out' = [page |-> "load_uso_general", status |-> "ok",
                      df_emb |-> e.value, served |-> {Served(e, rq)}]
           /\ cache' = CacheStore({e})
  /\ pc' = "load_uso_general"
  /\ UNCHANGED <<now, propuestas, today, fecha_predefinida, pgTime, vista, stock,
                 t874, cabe, pg, engSgm, engPg, engCx, objects, links>>

\* load_proveedores_mensual_por_comprador(desde, hasta, c_comprador) of the
\* buyer page, here its frame of CONNEXA; every purchase is of one supplier
LoadProveedoresMensualPorComprador(Requests, Buyers) ==
  /\ pc = "idle"
  /\ engPg = "ok"
  /\ \E q \in Requests, c_comprador \in Buyers :
       LET rq == [source |-> "diarco_data", filter |-> <<q, c_comprador>>]
           e  == CacheCall("load_proveedores_mensual_por_comprador", Some(ttl),
                           <<q[1], q[2], c_comprador>>, rq,
                           {r \in SqlPgConnexaMensual(q[1], q[2]) :
                              r.c_comprador = c_comprador})
       IN  /\ out' = [page |-> "load_proveedores_mensual_por_comprador",
                      status |-> "ok", df_cx |-> e.value,
                      served |-> {Served(e, rq)}]
           /\ cache' = CacheStore({e})
  /\ pc' = "load_proveedores_mensual_por_comprador"
  /\ UNCHANGED <<now, propuestas, today, fecha_predefinida, pgTime, vista, stock,
                 t874, cabe, pg, engSgm, engPg, engCx, objects, links>>

\* load_dataset() of page 07
LoadDataset ==
  /\ pc = "idle"
  /\ engPg = "ok"
  /\ LET rq == [source |-> "diarco_data", filter |-> <<>>]
         e  == CacheCall("load_dataset", Some(ttl), <<>>, rq,
                         SqlFallbackStockCartera30d)
     IN  /\ out' = [page |-> "load_dataset", status |-> "ok",
                    df_raw |-> e.value, served |-> {Served(e, rq)}]
         /\ cache' = CacheStore({e})
  /\ pc' = "load_dataset"
  /\ UNCHANGED <<now, propuestas, today, fecha_predefinida, pgTime, vista, stock,
                 t874, cabe, pg, engSgm, engPg, engCx, objects, links>>

(***************************************************************************)
(* Specification SpecCache: one proposal audited, the funnel of page 01    *)
(* and the stock of page 07 loaded, while the tables change and the clock  *)
(* advances.  Specification SpecCacheKey: two proposals, two ranges and    *)
(* two buyers asked for in turn.                                           *)
(***************************************************************************)
CacheRequests ==
  {<< <<2025, 9, 1>>, <<2025, 9, 30>> >>, << <<2025, 9, 1>>, <<2025, 9, 15>> >>}

NextCache ==
  \/ Tick
  \/ InsertT874({Some(1)}, {Some(1)}, {Some(3)}, {ReconDay})
  \/ InsertPropuesta({"A"}, {1})
  \/ InsertStock({1}, {40}, {0}, {Null}, {Null}, {Null}, {TRUE})
  \/ AuditoriaPedidos
  \/ LoadUsoGeneralCached(ReconRequests)
  \/ LoadDataset
  \/ Rerun

SpecCache == InitKey /\ [][NextCache]_vars

NextCacheKey ==
  \/ Tick
  \/ InsertPg({Some(1)}, {ReconDay}, {12}, {1, 2})
  \/ InsertPropuesta({"A"}, {1, 2})
  \/ AuditoriaPedidos
  \/ LoadProveedoresMensualPorComprador(CacheRequests, {1, 2})
  \/ Rerun

SpecCacheKey == InitKey /\ [][NextCacheKey]_vars

CacheReported == pc \in {"auditoria_pedidos", "load_uso_general",
                         "load_proveedores_mensual_por_comprador",
                         "load_dataset"} /\ out.status \in {"ok", "info"}

\* C21: every entry of a cache of extractions has a time to live, and no
\* run is served from an entry as old as its time to live or older.
C21_CacheExpires ==
  /\ \A e \in cache : e.ttl # Null
  /\ CacheReported =>
       \A s \in out.served : s.ttl # Null /\ s.age < s.ttl[1]

\* C22: a call is served from an entry only if the entry was filled by a
\* call with the same source, the same range of dates and the same filters.
C22_CacheKeyedByRequest ==
  CacheReported => \A s \in out.served : s.filled_by = s.request

\* A run served from an entry filled by an earlier run, with other entries
\* of the same function in the cache.
C22_Witness ==
  /\ CacheReported
  /\ \E s \in out.served :
       /\ s.age > 0
       /\ \E e \in cache : e.key[1] \in {"cargar_resumen_view",
                                        "load_proveedores_mensual_por_comprador"}
                            /\ e.request # s.request
                            /\ e.request.source = s.request.source

\* C23: two runs on the same records, window and filters give the same output,
\* the order of the rows included: the listing of orders without header that
\* page 03 shows and offers as CSV is the only listing the records admit.
C23_SameRowOrder ==
  (out.page = "indicador3" /\ out.status = "ok") =>
    \A l \in SqlSgmI3SinCabeOrdered(out.desde, out.hasta) : out.df_miss = l

\* The keys of the headers of month m, and the keys of the T874 orders, that the
\* window of the page run holds.
I3DestinationKeys(m) ==
  ValidPairs({c \in cabe : InRange(c.dia, out.desde, out.hasta) /\ MonthStart(c.dia) = m})

I3SourceKeys == ValidPairs({t \in t874 : InRange(t.dia, out.desde, out.hasta)})

\* C24: the proportion of each month that page 03 reports is matched /
\* (matched + destination-only), to the six decimals of the column: 1.0 for a
\* month whose header keys are all matched, 0.5 for a month with one matched
\* key and one destination-only key.
C24_AdoptionRatio ==
  (out.page = "indicador3" /\ out.status = "ok") =>
    \A r \in out.df :
      LET matched == Cardinality(I3DestinationKeys(r.mes) \cap I3SourceKeys)
          only    == Cardinality(I3DestinationKeys(r.mes) \ I3SourceKeys)
          err(x)  == x * (matched + only) - 1000000 * matched
      IN  /\ r.proporcion_ci # Null
          /\ 2 * err(r.proporcion_ci[1]) <= matched + only
          /\ 0 - 2 * err(r.proporcion_ci[1]) <= matched + only
          /\ (matched >= 1 /\ only = 0) => r.proporcion_ci = Some(1000000)
          /\ (matched = 1 /\ only = 1) => r.proporcion_ci = Some(500000)

C24_Witness ==
  /\ out.page = "indicador3" /\ out.status = "ok"
  /\ \E r \in out.df :
       /\ Cardinality(I3DestinationKeys(r.mes) \cap I3SourceKeys) = 1
       /\ Cardinality(I3DestinationKeys(r.mes) \ I3SourceKeys) = 1
       /\ r.proporcion_ci = Some(500000)

\* C25: a key carried by more than one header of the window is reported by
\* page 03 as a duplicate of the destination: the only listing of keys of the
\* page, the detail under the monthly table, names it.
C25_DuplicateHeadersReported ==
  (out.page = "indicador3" /\ out.status = "ok") =>
    LET cR == I3CabeR(out.desde, out.hasta)
        repeated == {c \in cR : \E d \in cR : d # c /\ CabeOcSgm(d) = CabeOcSgm(c)}
    IN  \A c \in repeated :
          \E i \in DOMAIN out.df_miss : T874OcSgm(out.df_miss[i]) = CabeOcSgm(c)

(***************************************************************************)
(* Specification SpecHang: SQL Server accepts the connection and then      *)
(* does not answer.  get_sqlserver_engine and get_pg_engine pass no        *)
(* timeout to create_engine, and no query sets one, so pd.read_sql returns *)
(* when the server answers and not before.                                 *)
(***************************************************************************)
\* The server stops answering, or answers again; at any moment.
SgmStall ==
  /\ engSgm \in {"ok", "hung"}
  /\ engSgm' = IF engSgm = "ok" THEN "hung" ELSE "ok"
  /\ UNCHANGED <<now, cache, propuestas, today, fecha_predefinida, pgTime,
                 vista, stock, t874, cabe, pg, engPg, engCx, objects, links, pc, out>>

\* The page of the buyers reaches load_sgm_resumen: pd.read_sql is sent.
LoadSgmResumenCall(Requests) ==
  /\ pc = "idle"
  /\ \E q \in Requests :
       out' = [page |-> "gestion_compradores", desde |-> q[1], hasta |-> q[2],
               status |-> "running"]
  /\ pc' = "load_sgm_resumen"
  /\ UNCHANGED <<now, cache, propuestas, today, fecha_predefinida, pgTime,
                 vista, stock, t874, cabe, pg, engSgm, engPg, engCx, objects, links>>

\* pd.read_sql returns, which takes an answer of the server, and the script
\* runs to its end.
LoadSgmResumenReturn ==
  /\ pc = "load_sgm_resumen"
  /\ engSgm # "hung"
  /\ out' = GestionCompradoresReport(out.desde, out.hasta)
  /\ pc' = "gestion_compradores"
  /\ UNCHANGED <<now, cache, propuestas, today, fecha_predefinida, pgTime,
                 vista, stock, t874, cabe, pg, engSgm, engPg, engCx, objects, links>>

NextHang ==
  \/ InsertCabe({Some(1)}, RatioSuffixes, RatioDays, RatioBuyers)
  \/ InsertPg(RatioKikkers, RatioDays, {12}, RatioBuyers)
  \/ SgmStall
  \/ LoadSgmResumenCall(RatioRequests)
  \/ LoadSgmResumenReturn
  \/ (pc # "load_sgm_resumen" /\ Rerun)

\* The step of LoadSgmResumenReturn, seen on pc alone.
ReadSqlReturns ==
  pc = "load_sgm_resumen" /\ engSgm # "hung" /\ pc' = "gestion_compradores"

\* The call returns if the server answers again and again; a script that waits
\* in pd.read_sql is not rerun before the call returns.
SpecHang == InitKey /\ [][NextHang]_vars /\ SF_pc(ReadSqlReturns)

\* C26: a page that has sent its query to SQL Server does not wait for ever:
\* it ends with a report, whether the server answers or not.
C26_CallReturns == (pc = "load_sgm_resumen") ~> (pc # "load_sgm_resumen")

(***************************************************************************)
(* Page 10: the control of the interfaces.  obtener_control_interfaces     *)
(* reads the tables one after another on one connection.                   *)
(***************************************************************************)
\* TABLAS_TOTAL, in the order of the dict: three of its tables.
TablasTotal == <<"t060_stock", "t080_oc_cabe", "t081_oc_deta">>

\* What PostgreSQL holds for a table: whether its date column exists, whether
\* the query on it fails (a column that cannot be cast to date, a table that
\* may not be read), and the last date and the count of its last day.
ControlTableStates ==
  [columna : BOOLEAN, falla : BOOLEAN, ultima_fecha : {<<2025, 9, 5>>}, cantidad : {1, 2}]

\* The rows of obtener_control_interfaces.  _exists_column runs on a
\* connection of its own.  The queries run on con: after one of them has
\* failed, PostgreSQL refuses every statement until the transaction is rolled
\* back, which SQLAlchemy 1.4 does by itself (autorollback) and SQLAlchemy 2
\* does not; no file of the repository fixes the version.
ObtenerControlInterfaces(tablas, autorollback) ==
  [i \in DOMAIN TablasTotal |->
     LET t == tablas[i]
         in_failed_transaction ==
           \E j \in 1..(i - 1) : tablas[j].columna /\ tablas[j].falla /\ ~ autorollback
         error_row(txt) ==
           [tabla |-> TablasTotal[i], ultima_fecha_extraccion |-> Null,
            cantidad_registros |-> Null, error |-> Some(txt)]
     IN  IF ~ t.columna THEN error_row("Columna inexistente")
         ELSE IF in_failed_transaction THEN error_row("InFailedSqlTransaction")
         ELSE IF t.falla THEN error_row("ProgrammingError")
         ELSE [tabla |-> TablasTotal[i], ultima_fecha_extraccion |-> Some(t.ultima_fecha),
               cantidad_registros |-> Some(t.cantidad), error |-> Null]]

\* fetch_control_df of page 10, on the tables as PostgreSQL holds them
FetchControlDf ==
  /\ pc = "idle"
  /\ \E tablas \in [DOMAIN TablasTotal -> ControlTableStates], autorollback \in BOOLEAN :
       out' = IF engPg # "ok"
              THEN [page |-> "control_interfaces", status |-> "aborted"]
              ELSE [page |-> "control_interfaces", status |-> "ok", tablas |-> tablas,
                    df |-> ObtenerControlInterfaces(tablas, autorollback)]
  /\ pc' = "control_interfaces"
  /\ UNCHANGED <<now, cache, propuestas, today, fecha_predefinida, pgTime,
                 vista, stock, t874, cabe, pg, engSgm, engPg, engCx, objects, links>>

NextControl ==
  \/ PgOutage
  \/ FetchControlDf
  \/ Rerun

SpecControl == InitKey /\ [][NextControl]_vars

\* C27: the control has one row per configured table, in their order; the row
\* of a table whose column is missing or whose query fails has no date, no
\* count and an error text; the row of every other table has the date and the
\* count of that table and no error, whatever happened to the tables before it.
C27_OneRowPerTable ==
  (out.page = "control_interfaces" /\ out.status = "ok") =>
    /\ DOMAIN out.df = DOMAIN TablasTotal
    /\ \A i \in DOMAIN TablasTotal :
         LET t == out.tablas[i]
             r == out.df[i]
         IN  /\ r.tabla = TablasTotal[i]
             /\ (~ t.columna \/ t.falla) =>
                  /\ r.ultima_fecha_extraccion = Null
                  /\ r.cantidad_registros = Null
                  /\ r.error # Null
             /\ (t.columna /\ ~ t.falla) =>
                  /\ r.ultima_fecha_extraccion = Some(t.ultima_fecha)
                  /\ r.cantidad_registros = Some(t.cantidad)
                  /\ r.error = Null

(***************************************************************************)
(* Page 04 (Ind 4), tab 4: orders of CONNEXA and orders of SGM by          *)
(* supplier.  The rows of the model are the rows of one supplier.          *)
(***************************************************************************)
\* SQL_PG_CONNEXA_PROV: WHERE f_alta_sist >= :desde AND f_alta_sist < (:hasta)
SqlPgConnexaProv(desde, hasta) ==
  LET base == {x \in pg : /\ DateLE(desde, PgDate(x, FALSE))
                          /\ DateLT(PgDate(x, FALSE), hasta)}
  IN  IF base = {} THEN {}
      ELSE {[c_proveedor |-> 1,
             pedidos_connexa |-> CountDistinct({x.connexa : x \in base})]}

\* SQL_SGM_CONNEXA_PROV: WHERE F_ALTA_SIST >= :desde AND F_ALTA_SIST < :hasta
SqlSgmConnexaProv(desde, hasta) ==
  LET base == {r \in t874 : DateLE(desde, r.dia) /\ DateLT(r.dia, hasta)}
  IN  IF base = {} THEN {}
      ELSE {[c_proveedor |-> 1,
             oc_sgm_generadas |-> CountDistinct({T874OcSgm(r) : r \in base})]}

\* with tab_conv: fetch_connexa_prov and fetch_sgm_prov are given the dates of
\* make_date_filters as they are; the outer merge, fillna(0) and the rate.
TabConv(Requests) ==
  /\ pc = "idle"
  /\ \E q \in Requests :
       LET desde  == q[1]
           hasta  == q[2]
           df_pg  == SqlPgConnexaProv(desde, hasta)
           df_sgm == IF engSgm = "none" THEN {} ELSE SqlSgmConnexaProv(desde, hasta)
           pedidos(k) == SumOf([r \in df_pg |-> r.pedidos_connexa],
                               {r \in df_pg : r.c_proveedor = k})
           ocs(k) == SumOf([r \in df_sgm |-> r.oc_sgm_generadas],
                           {r \in df_sgm : r.c_proveedor = k})
       IN  out' =
             IF engPg # "ok" \/ engSgm = "down"
             THEN Aborted("tab_conv", desde, hasta)
             ELSE IF df_pg = {} /\ df_sgm = {}
             THEN [page |-> "tab_conv", desde |-> desde, hasta |-> hasta,
                   status |-> "info"]
             ELSE [page |-> "tab_conv", desde |-> desde, hasta |-> hasta,
                   status |-> "ok",
                   df_merge |->
                     { [c_proveedor |-> k, pedidos_connexa |-> pedidos(k),
                        oc_sgm_generadas |-> ocs(k),
                        tasa_conversion |-> IF pedidos(k) > 0
                                            THEN Frac(ocs(k) * 100, pedidos(k))
                                            ELSE Frac(0, 1)]
                       : k \in {r.c_proveedor : r \in df_pg \cup df_sgm} }]
  /\ pc' = "tab_conv"
  /\ UNCHANGED <<now, cache, propuestas, today, fecha_predefinida, pgTime,
                 vista, stock, t874, cabe, pg, engSgm, engPg, engCx, objects, links>>

(***************************************************************************)
(* Specification SpecRange: orders written on the last day of the range    *)
(* asked for, at its first and at its last hour, and on the day after.     *)
(***************************************************************************)
RangeDays == {<<2025, 9, 5>>, <<2025, 9, 6>>}

RangeRequests == {<< <<2025, 9, 1>>, <<2025, 9, 5>> >>}

NextRange ==
  \/ InsertPg({Some(1), Some(2)}, RangeDays, {0, 23}, {1})
  \/ InsertT874({Some(1)}, {Some(1)}, {Some(3), Some(4)}, RangeDays)
  \/ SgmOutage
  \/ TabRecon(RangeRequests)
  \/ TabConv(RangeRequests)
  \/ Rerun

SpecRange == InitKey /\ [][NextRange]_vars

\* C28: the date "Hasta (inclusive)" is the last day read: the purchases of
\* CONNEXA and the orders of SGM that the reconciliation of page 02 and the
\* conversion of page 04 count are those written from desde to hasta, any
\* hour of hasta included, the day after it excluded.
C28_HastaInclusive ==
  LET pgIn  == {x \in pg : InRange(x.dia, out.desde, out.hasta)}
      sgmIn == {r \in t874 : InRange(r.dia, out.desde, out.hasta)}
      shown == IF out.status = "ok" THEN out.df_merge ELSE {}
  IN  /\ (out.page = "tab_recon" /\ out.status = "ok") =>
           {r.kikker : r \in {x \in out.recon : x.estado # "SGM sin CONNEXA"}}
             = {AsTypeStr(x.connexa) : x \in pgIn}
      /\ (out.page = "tab_conv" /\ out.status \in {"ok", "info"} /\ engSgm = "ok") =>
           /\ pgIn # {} => \E r \in shown :
                             r.pedidos_connexa = CountDistinct({x.connexa : x \in pgIn})
           /\ sgmIn # {} => \E r \in shown :
                              r.oc_sgm_generadas = CountDistinct({T874OcSgm(x) : x \in sgmIn})

\* C29: processing a sheet for a buyer adds the links that are missing and
\* only those, and counts them; processing the same sheet for the same buyer
\* once more, on the links as the first processing left them, inserts 0 links
\* and leaves the set of links as it is.
C29_UploadIdempotent ==
  [][(pc = "idle" /\ out'.page = "carga_masiva" /\ out'.status = "ok") =>
       /\ links \subseteq links'
       /\ out'.inserted = Cardinality(links' \ links)
       /\ ProcessUpload(links', out'.buyer_id, out'.df_upload).inserted = 0
       /\ ProcessUpload(links', out'.buyer_id, out'.df_upload).links = links']_vars

\* A sheet processed when every supplier of the catalogue was linked to the
\* buyer already, as a first processing of the sheet leaves them.
C29_Witness ==
  /\ out.page = "carga_masiva"
  /\ out.status = "ok"
  /\ out.inserted = 0
  /\ out.omitted = 3
  /\ \A fs \in FndSupplier : <<out.buyer_id, fs.id>> \in links

(***************************************************************************)
(* modules/ui.py: the default dates of the filter.  The module is run once *)
(* per process, at its first import; Streamlit runs the script of a page   *)
(* again at every interaction, and the import then finds the module loaded. *)
(***************************************************************************)
\* hoy = date.today() ... fecha_predefinida = date(year, mes_anterior, 1)
FechaPredefinida(hoy) ==
  LET mes_anterior == hoy[2] - 1
  IN  IF mes_anterior = 0 THEN <<hoy[1] - 1, 12, 1>>
      ELSE <<hoy[1], mes_anterior, 1>>

\* Midnight: date.today() moves on while the process keeps running.
DayPasses ==
  /\ pc = "idle"
  /\ DayNumber(today) < DayNumber(<<2025, 9, 15>>) + MaxDays
  /\ today' = NextDay(today)
  /\ UNCHANGED <<now, cache, propuestas, fecha_predefinida, pgTime, vista, stock,
                 t874, cabe, pg, engSgm, engPg, engCx, objects, links, pc, out>>

\* A page is rendered: from modules.ui import make_date_filters, which runs
\* the module if the process has not imported it yet, and make_date_filters(),
\* whose widgets offer fecha_predefinida and date.today().
MakeDateFilters ==
  /\ pc = "idle"
  /\ fecha_predefinida' = IF fecha_predefinida = Null
                          THEN Some(FechaPredefinida(today))
                          ELSE fecha_predefinida
  /\ out' = [page |-> "make_date_filters", status |-> "ok",
             desde |-> fecha_predefinida'[1], hasta |-> today]
  /\ pc' = "make_date_filters"
  /\ UNCHANGED <<now, cache, propuestas, today, pgTime, vista, stock,
                 t874, cabe, pg, engSgm, engPg, engCx, objects, links>>

NextDates ==
  \/ DayPasses
  \/ MakeDateFilters
  \/ Rerun

SpecDates == InitKey /\ [][NextDates]_vars

\* C30: the start date the filter offers is the first day of the month before
\* the day on which the filter is rendered, December of the year before when
\* that day is in January, however long the process has been running.
C30_DefaultStartDate ==
  (out.page = "make_date_filters") =>
    out.desde = IF out.hasta[2] = 1 THEN <<out.hasta[1] - 1, 12, 1>>
                ELSE <<out.hasta[1], out.hasta[2] - 1, 1>>

====
